---------------------------- MODULE Spec2Model ----------------------------
(***************************************************************************)
(* Statement-text-to-transaction extraction of sripopuri/expenses:         *)
(* src/src/bank_parsers.py (AmexParser, BankOfAmericaParser),              *)
(* src/src/pdf_parser.py (BankStatementParser, main) and                   *)
(* src/src/process_expenses.py.                                            *)
(*                                                                         *)
(* Text is modelled as TLA+ strings; a statement is the sequence of lines  *)
(* text.split('\n') yields.  Sequences are 1-based here, so the source's   *)
(* line index i is the model's i - 1.                                      *)
(***************************************************************************)
EXTENDS Integers, Sequences, FiniteSets, TLC

(***************************************************************************)
(* Characters and the str methods the parsers call.                        *)
(***************************************************************************)
Char(s, p) == SubSeq(s, p, p)

Digit == {"0", "1", "2", "3", "4", "5", "6", "7", "8", "9"}
UpperAZ == {"A", "B", "C", "D", "E", "F", "G", "H", "I", "J", "K", "L", "M",
            "N", "O", "P", "Q", "R", "S", "T", "U", "V", "W", "X", "Y", "Z"}
LowerAZ == {"a", "b", "c", "d", "e", "f", "g", "h", "i", "j", "k", "l", "m",
            "n", "o", "p", "q", "r", "s", "t", "u", "v", "w", "x", "y", "z"}
Space == {" "}
AnyChar == {"any"}
DigitComma == Digit \cup {","}
DigitDot == Digit \cup {"."}
UpperDigit == UpperAZ \cup Digit
WordChar == UpperAZ \cup LowerAZ \cup Digit \cup {"_"}

InClass(c, cls) == cls = AnyChar \/ c \in cls

UpperOf == [c \in LowerAZ |->
              CASE c = "a" -> "A" [] c = "b" -> "B" [] c = "c" -> "C" [] c = "d" -> "D"
                [] c = "e" -> "E" [] c = "f" -> "F" [] c = "g" -> "G" [] c = "h" -> "H"
                [] c = "i" -> "I" [] c = "j" -> "J" [] c = "k" -> "K" [] c = "l" -> "L"
                [] c = "m" -> "M" [] c = "n" -> "N" [] c = "o" -> "O" [] c = "p" -> "P"
                [] c = "q" -> "Q" [] c = "r" -> "R" [] c = "s" -> "S" [] c = "t" -> "T"
                [] c = "u" -> "U" [] c = "v" -> "V" [] c = "w" -> "W" [] c = "x" -> "X"
                [] c = "y" -> "Y" [] c = "z" -> "Z"]

RECURSIVE StrUpper(_)
StrUpper(s) ==
    IF s = "" THEN ""
    ELSE LET c == Char(s, 1)
         IN (IF c \in LowerAZ THEN UpperOf[c] ELSE c) \o StrUpper(SubSeq(s, 2, Len(s)))

Contains(s, sub) ==
    \E p \in 1..(Len(s) - Len(sub) + 1) : SubSeq(s, p, p + Len(sub) - 1) = sub

StartsWith(s, pre) == Len(s) >= Len(pre) /\ SubSeq(s, 1, Len(pre)) = pre

EndsWith(s, suf) ==
    Len(s) >= Len(suf) /\ SubSeq(s, Len(s) - Len(suf) + 1, Len(s)) = suf

RECURSIVE LStrip(_)
LStrip(s) == IF s # "" /\ Char(s, 1) \in Space THEN LStrip(SubSeq(s, 2, Len(s))) ELSE s

RECURSIVE RStrip(_)
RStrip(s) ==
    IF s # "" /\ Char(s, Len(s)) \in Space THEN RStrip(SubSeq(s, 1, Len(s) - 1)) ELSE s

Strip(s) == LStrip(RStrip(s))

\* s.replace(c, '') for a single character c
RECURSIVE Remove(_, _)
Remove(s, c) ==
    IF s = "" THEN ""
    ELSE (IF Char(s, 1) = c THEN "" ELSE Char(s, 1)) \o Remove(SubSeq(s, 2, Len(s)), c)

\* s.split(): the maximal runs of non-whitespace characters
RECURSIVE SplitFrom(_, _, _)
SplitFrom(s, p, cur) ==
    IF p > Len(s) THEN (IF cur = "" THEN <<>> ELSE <<cur>>)
    ELSE IF Char(s, p) \in Space
         THEN (IF cur = "" THEN <<>> ELSE <<cur>>) \o SplitFrom(s, p + 1, "")
         ELSE SplitFrom(s, p + 1, cur \o Char(s, p))

Split(s) == SplitFrom(s, 1, "")

\* ' '.join(parts)
RECURSIVE Join(_)
Join(parts) ==
    IF parts = <<>> THEN ""
    ELSE IF Len(parts) = 1 THEN parts[1]
    ELSE parts[1] \o " " \o Join(Tail(parts))

\* ' '.join(s.split())
Collapse(s) == Join(Split(s))

IsDigitStr(s) == s # "" /\ \A p \in 1..Len(s) : Char(s, p) \in Digit

\* str.isupper(): some cased character, and no lowercase one
IsUpperStr(s) ==
    /\ \E p \in 1..Len(s) : Char(s, p) \in UpperAZ
    /\ \A p \in 1..Len(s) : Char(s, p) \notin LowerAZ

(***************************************************************************)
(* The regular expressions of the source, as data, and a backtracking      *)
(* matcher with re's semantics: an element is a character class repeated   *)
(* lo..hi times (hi = -1: no upper limit), greedy or lazy; the first       *)
(* alternative in backtracking order wins, a search takes the leftmost     *)
(* start.                                                                  *)
(***************************************************************************)
Rx(cls, lo, hi) == [cls |-> cls, lo |-> lo, hi |-> hi, greedy |-> TRUE]
RxLazy(cls, lo, hi) == [cls |-> cls, lo |-> lo, hi |-> hi, greedy |-> FALSE]
Ch(c) == Rx({c}, 1, 1)
Opt(c) == Rx({c}, 0, 1)
Plus(cls) == Rx(cls, 1, -1)
Star(cls) == Rx(cls, 0, -1)

RECURSIVE RunLen(_, _, _, _)
RunLen(s, p, cls, cap) ==
    IF cap = 0 \/ p > Len(s) \/ ~InClass(Char(s, p), cls) THEN 0
    ELSE 1 + RunLen(s, p + 1, cls, cap - 1)

NoMatch == [ok |-> FALSE, start |-> 0, ends |-> <<>>]

RECURSIVE MatchFrom(_, _, _, _, _)
RECURSIVE TryCount(_, _, _, _, _, _, _)
MatchFrom(s, p, pat, k, toEnd) ==
    IF k > Len(pat)
    THEN [ok |-> (~toEnd \/ p = Len(s) + 1), start |-> 0, ends |-> <<>>]
    ELSE LET m == RunLen(s, p, pat[k].cls, pat[k].hi)
         IN IF m < pat[k].lo THEN NoMatch
            ELSE TryCount(s, p, pat, k, toEnd, IF pat[k].greedy THEN m ELSE pat[k].lo, m)
TryCount(s, p, pat, k, toEnd, n, m) ==
    LET r == MatchFrom(s, p + n, pat, k + 1, toEnd)
    IN IF r.ok THEN [ok |-> TRUE, start |-> p, ends |-> <<p + n>> \o r.ends]
       ELSE IF pat[k].greedy
            THEN (IF n > pat[k].lo THEN TryCount(s, p, pat, k, toEnd, n - 1, m) ELSE NoMatch)
            ELSE (IF n < m THEN TryCount(s, p, pat, k, toEnd, n + 1, m) ELSE NoMatch)

\* re.match(pat, s); toEnd: the pattern ends with $
ReMatch(s, pat, toEnd) ==
    LET r == MatchFrom(s, 1, pat, 1, toEnd)
    IN IF r.ok THEN [ok |-> TRUE, start |-> 1, ends |-> r.ends] ELSE NoMatch

\* re.search(pat, s), from position p on
RECURSIVE SearchFrom(_, _, _)
SearchFrom(s, pat, p) ==
    IF p > Len(s) + 1 THEN NoMatch
    ELSE LET r == MatchFrom(s, p, pat, 1, FALSE)
         IN IF r.ok THEN [ok |-> TRUE, start |-> p, ends |-> r.ends]
            ELSE SearchFrom(s, pat, p + 1)

ReSearch(s, pat) == SearchFrom(s, pat, 1)

\* the text of elements a..b of a match r of s
Group(s, r, a, b) ==
    SubSeq(s, IF a = 1 THEN r.start ELSE r.ends[a - 1], r.ends[b] - 1)

\* re.sub(pat, '', s); no pattern here matches the empty string
RECURSIVE SubFrom(_, _, _)
SubFrom(s, pat, p) ==
    LET r == SearchFrom(s, pat, p)
    IN IF ~r.ok THEN SubSeq(s, p, Len(s))
       ELSE SubSeq(s, p, r.start - 1) \o SubFrom(s, pat, r.ends[Len(pat)])

ReSub(s, pat) == SubFrom(s, pat, 1)

\* \d{1,2}/\d{1,2}/\d{2,4}
DateRx == <<Rx(Digit, 1, 2), Ch("/"), Rx(Digit, 1, 2), Ch("/"), Rx(Digit, 2, 4)>>
\* ^(\d{1,2}/\d{1,2}/\d{2,4})\s+(.+)
InlineRx == DateRx \o <<Plus(Space), Plus(AnyChar)>>
\* \d+-\$([\d,]+\.\d{2})
CreditRx == <<Plus(Digit), Ch("-"), Ch("$"), Plus(DigitComma), Ch("."), Rx(Digit, 2, 2)>>
\* (-?)\$?([\d,]+\.\d{2}); the optional trailing mark after it changes no group
StandardRx == <<Opt("-"), Opt("$"), Plus(DigitComma), Ch("."), Rx(Digit, 2, 2)>>
\* \+?\d{10,}
PhoneRx == <<Opt("+"), Rx(Digit, 10, -1)>>
\* [A-Z0-9]{6,}\s*\d{5}
RefCodeRx == <<Rx(UpperDigit, 6, -1), Star(Space), Rx(Digit, 5, 5)>>
\* ^(-?\$[\d,]+\.\d{2})$
AmountOnlyRx == <<Opt("-"), Ch("$"), Plus(DigitComma), Ch("."), Rx(Digit, 2, 2)>>

\* (\d{1,2}/\d{1,2}/\d{4})
ClosingDateRx == <<Rx(Digit, 1, 2), Ch("/"), Rx(Digit, 1, 2), Ch("/"), Rx(Digit, 4, 4)>>
\* (\w+)\s+\d+\s*-\s*(\w+)\s+\d+,\s*(\d{4})
PeriodRx == <<Plus(WordChar), Plus(Space), Plus(Digit), Star(Space), Ch("-"), Star(Space),
              Plus(WordChar), Plus(Space), Plus(Digit), Ch(","), Star(Space),
              Rx(Digit, 4, 4)>>
\* \$[\d,]+\.[\d]{2}
DollarRx == <<Ch("$"), Plus(DigitComma), Ch("."), Rx(Digit, 2, 2)>>
\* ^(\d{2}/\d{2})\s+(\d{2}/\d{2})\s+(.+?)\s+([\d.]+)$
RowRx == <<Rx(Digit, 2, 2), Ch("/"), Rx(Digit, 2, 2), Plus(Space),
           Rx(Digit, 2, 2), Ch("/"), Rx(Digit, 2, 2), Plus(Space),
           RxLazy(AnyChar, 1, -1), Plus(Space), Plus(DigitDot)>>

DigitValue == [c \in Digit |->
                 CASE c = "0" -> 0 [] c = "1" -> 1 [] c = "2" -> 2 [] c = "3" -> 3
                   [] c = "4" -> 4 [] c = "5" -> 5 [] c = "6" -> 6 [] c = "7" -> 7
                   [] c = "8" -> 8 [] c = "9" -> 9]
DigitChar == <<"0", "1", "2", "3", "4", "5", "6", "7", "8", "9">>

\* int(s) for a string of digits
RECURSIVE ToInt(_)
ToInt(s) ==
    IF Len(s) = 1 THEN DigitValue[s]
    ELSE 10 * ToInt(SubSeq(s, 1, Len(s) - 1)) + DigitValue[Char(s, Len(s))]

\* str(n)
RECURSIVE NatToStr(_)
NatToStr(n) == IF n < 10 THEN DigitChar[n + 1] ELSE NatToStr(n \div 10) \o DigitChar[(n % 10) + 1]
ToStr(n) == IF n < 0 THEN "-" \o NatToStr(0 - n) ELSE NatToStr(n)

LowerOf == [c \in UpperAZ |-> CHOOSE d \in LowerAZ : UpperOf[d] = c]

RECURSIVE StrLower(_)
StrLower(s) ==
    IF s = "" THEN ""
    ELSE LET c == Char(s, 1)
         IN (IF c \in UpperAZ THEN LowerOf[c] ELSE c) \o StrLower(SubSeq(s, 2, Len(s)))

Min(a, b) == IF a < b THEN a ELSE b

(***************************************************************************)
(* What the parsers read off one line.                                     *)
(***************************************************************************)
None == "None"
\* statement_month = None: no month is known (month_map.get of an unknown name too)
NoMonth == 0

\* the fewest inline-layout transactions that keep AmexParser from the second format
SplitThreshold == 5
\* the split layout gathers description lines from lines[i+2 : i+10]
SplitLookahead == 10
\* ... and stops after this many
SplitMaxParts == 3
\* ... and joins description_parts[:5]
SplitJoinParts == 5
\* a description must be longer than this
MinDescription == 2
DefaultYear == "2025"
DefaultMonth == 12
\* the fallback description is the first min(4, len(parts)) tokens
FallbackParts == 4

InlineKeywords == <<"THANK YOU", "MOBILE PAYMENT", "PAYMENT - THANK YOU", "AUTOPAY">>
SplitKeywords == <<"THANK YOU", "MOBILE PAYMENT", "PAYMENT", "AUTOPAY">>
SectionEnd == <<"TOTAL PURCHASES", "Interest Charged", "Fees Charged", "Page ">>

\* AnyKeyword without .upper()
C6_CaseSensitive(s, keywords) ==
    \E k \in 1..Len(keywords) : Contains(s, keywords[k])

\* any(keyword in s.upper() for keyword in keywords)
AnyKeyword(s, keywords) ==
    \E k \in 1..Len(keywords) : Contains(StrUpper(s), keywords[k])

\* f"{date}_{description}_{amount}"
DedupKey(date, description, amount) == date \o "_" \o description \o "_" \o amount

\* the inline layout's cleanup of a description
CleanInline(description) == Collapse(ReSub(ReSub(description, PhoneRx), RefCodeRx))

\* the split layout's cleanup of a description
CleanSplit(description) == Collapse(ReSub(description, PhoneRx))

\* a line of the inline layout: a date, whitespace, a description; payment: the
\* line is skipped as an account payment
InlineLine(raw) ==
    LET line == Strip(raw)
        date_match == ReMatch(line, InlineRx, FALSE)
        description == Strip(Group(line, date_match, 7, 7))
    IN IF date_match.ok /\ ~Contains(line, "Closing Date")
       THEN [ok |-> TRUE, date |-> Group(line, date_match, 1, 5),
             description |-> description,
             payment |-> AnyKeyword(description, InlineKeywords),
             cleaned |-> CleanInline(description)]
       ELSE [ok |-> FALSE, date |-> None, description |-> None, payment |-> FALSE,
             cleaned |-> None]

\* the amount notations tried on one line after a dated line: the
\* digits-hyphen credit first, then the standard pattern
AmountOnLine(raw) ==
    LET next_line == Strip(raw)
        c == ReSearch(next_line, CreditRx)
        s == ReSearch(next_line, StandardRx)
    IN IF c.ok THEN [found |-> TRUE, is_credit |-> TRUE, amount |-> Group(next_line, c, 4, 6)]
       ELSE IF s.ok
            THEN [found |-> TRUE, is_credit |-> (Group(next_line, s, 1, 1) = "-"),
                  amount |-> Group(next_line, s, 3, 5)]
            ELSE [found |-> FALSE, is_credit |-> FALSE, amount |-> None]

\* InlineFinalAmount with amount.replace(',', '') left out
C2_KeepSeparators(amount, is_credit) == IF is_credit THEN "-" \o amount ELSE amount

\* final_amount of the inline layout
InlineFinalAmount(amount, is_credit) ==
    IF is_credit THEN "-" \o Remove(amount, ",") ELSE Remove(amount, ",")

\* a line as the split layout reads it: an amount alone, a date alone, a payment
\* marker, or a line that may join a description
SplitLine(raw) ==
    LET line == Strip(raw)
    IN [text |-> line,
        amount_only |-> ReMatch(line, AmountOnlyRx, TRUE).ok,
        date_only |-> ReMatch(line, DateRx, TRUE).ok,
        payment |-> AnyKeyword(line, SplitKeywords),
        part |-> Len(line) > 1 /\ ~IsDigitStr(line)]

\* amount_str of the split layout: is_credit and the amount without $ - ,
SplitAmount(amount_str) ==
    [is_credit |-> StartsWith(amount_str, "-"),
     amount |-> Remove(Remove(Remove(amount_str, "$"), "-"), ",")]

MonthMap(name) ==
    CASE name = "January" -> 1 [] name = "February" -> 2 [] name = "March" -> 3
      [] name = "April" -> 4 [] name = "May" -> 5 [] name = "June" -> 6
      [] name = "July" -> 7 [] name = "August" -> 8 [] name = "September" -> 9
      [] name = "October" -> 10 [] name = "November" -> 11 [] name = "December" -> 12
      [] OTHER -> NoMonth

\* the closing date a header line carries: "... Closing Date MM/DD/YYYY", or a
\* period "Month D - Month D, YYYY"
ClosingLine(line) ==
    LET c == ReSearch(line, ClosingDateRx)
        p == ReSearch(line, PeriodRx)
    IN IF c.ok /\ Contains(line, "Closing Date")
       THEN [found |-> TRUE, year |-> Group(line, c, 5, 5),
             month |-> ToInt(Group(line, c, 1, 1))]
       ELSE IF p.ok
            THEN [found |-> TRUE, year |-> Group(line, p, 12, 12),
                  month |-> MonthMap(Group(line, p, 7, 7))]
            ELSE [found |-> FALSE, year |-> None, month |-> NoMonth]

\* "Purchases and Adjustments" that is not followed by a dollar amount
StartLine(line) ==
    Contains(line, "Purchases and Adjustments") /\ ~ReSearch(line, DollarRx).ok

\* the index of the first two-letter uppercase token, 0 when there is none
RECURSIVE StateIndex(_, _)
StateIndex(parts, j) ==
    IF j > Len(parts) THEN 0
    ELSE IF Len(parts[j]) = 2 /\ IsUpperStr(parts[j]) THEN j
    ELSE StateIndex(parts, j + 1)

\* description_parts: parts[:j-1] for the state token at (0-based) j, and the
\* first tokens when that is empty
DescriptionParts(parts) ==
    LET j == StateIndex(parts, 1)
        before == IF j = 0 THEN <<>>
                  ELSE IF j = 1 THEN SubSeq(parts, 1, Len(parts) - 1)
                  ELSE SubSeq(parts, 1, j - 2)
    IN IF before = <<>> THEN SubSeq(parts, 1, Min(FallbackParts, Len(parts))) ELSE before

\* is_credit of the fixed-column layout
RowIsCredit(line) == Contains(line, "CR") \/ EndsWith(line, "-")

\* a line of the fixed-column layout: section_end stops the loop, ok is a row
\* MM/DD MM/DD DESCRIPTION ... AMOUNT; stored is the amount the dedup key takes
RowLine(raw) ==
    LET line == Strip(raw)
        match == ReMatch(line, RowRx, TRUE)
        amount == Group(line, match, 11, 11)
        is_credit == RowIsCredit(line)
        stored == IF is_credit THEN Remove(amount, "-") ELSE amount
    IN IF \E k \in 1..Len(SectionEnd) : Contains(line, SectionEnd[k])
       THEN [section_end |-> TRUE, ok |-> FALSE, transaction_date |-> None,
             description |-> None, stored |-> None, final_amount |-> None]
       ELSE IF ~match.ok
       THEN [section_end |-> FALSE, ok |-> FALSE, transaction_date |-> None,
             description |-> None, stored |-> None, final_amount |-> None]
       ELSE [section_end |-> FALSE, ok |-> TRUE,
             transaction_date |-> Group(line, match, 1, 3),
             description |-> Strip(Join(DescriptionParts(Split(Group(line, match, 9, 9))))),
             stored |-> stored,
             final_amount |-> IF is_credit THEN "-" \o Remove(stored, ",")
                              ELSE Remove(stored, ",")]

\* TransYear with >= for >
C4_AtOrAfter(trans_month, year, month) ==
    IF trans_month >= month THEN ToStr(ToInt(year) - 1) ELSE year

\* the year given to a transaction of month trans_month
TransYear(trans_month, year, month) ==
    IF trans_month > month THEN ToStr(ToInt(year) - 1) ELSE year

(***************************************************************************)
(* The statements considered: every text of up to MaxLines of these lines, *)
(* and for repeated calls up to MaxCalls texts of RepeatedStatements.      *)
(***************************************************************************)
MaxLines == 4
MaxCalls == 3
MaxFiles == 3
MaxFactoryLines == 2
MaxTokens == 2
MaxLabelCalls == 2
MaxSectionLines == 3
MaxInline == 6

StatementLines ==
    {"08/15/24 FOO STORE 8009256278", "08/15/24", "FOO STORE", "$2,436.94",
     "-$2,436.94", "8009256278-$2,436.94", "08/16/24 Payment - Thank You"}

BofaLines ==
    {"Statement Closing Date 01/20/2025", "November 21 - December 20, 2025",
     "Nov 21 - Dec 20, 2025",
     "Purchases and Adjustments",
     "12/28 12/30 SUNGLASS HUT 5167 ROGERS AR 9098 2361 215.72",
     "01/05 01/06 CRACKER BARREL PLANO TX 1234 5678 20.00",
     "07/04 07/05 FUEL STOP AR 9098 2361",
     "07/04 07/05 7 ELEVEN TX 9098 2361 12.50",
     "01/05 01/06 NETFLIX.COM 8665797172 LOS GATOS CA 1234 5678 20.00",
     "TOTAL PURCHASES AND ADJUSTMENTS FOR THIS PERIOD $235.72"}

\* lines of a Bank of America statement around its transactions section: the
\* section heading with and without a dollar total, rows with and without a
\* credit marker, rows whose state code is the first or the second token, and
\* lines that end the section
SectionLines ==
    {"Purchases and Adjustments", "Purchases and Adjustments $235.72",
     "01/05 01/06 FOO MART PLANO TX 1234 5678 20.00",
     "01/05 01/06 REFUND STORE PLANO TX 1234 5678 20.00 CR",
     "01/05 01/06 REFUND STORE PLANO TX 1234 5678 20.00-",
     "01/05 01/06 TX BBQ 1234 5678 20.00",
     "01/05 01/06 CVS TX 1234 5678 20.00",
     "Page 2 of 4", "Interest Charged on Purchases"}

\* statements of the inline layout with n transactions, each on a dated line
\* followed by its amount line
InlinePair(k) ==
    <<"08/0" \o ToStr(k) \o "/24 SHOP " \o ToStr(k), "$" \o ToStr(k) \o ".00">>

RECURSIVE InlinePairs(_)
InlinePairs(n) == IF n = 0 THEN <<>> ELSE InlinePairs(n - 1) \o InlinePair(n)

\* what follows them: split-layout triples with one or more description
\* lines, with lines that are left out of a description, with a second triple
\* or a date behind the description, with a phone number in the
\* description, a triple that repeats an inline
\* transaction, two dated lines before one amount line, and payment lines of
\* both layouts
StatementTails ==
    {<<"$9.00", "08/15/24", "FOO STORE">>,
     <<"$9.00", "08/15/24", "WALMART.COM  8009256278", "STORE">>,
     <<"-$9.00", "08/15/24", "FOO", "BAR", "BAZ", "QUX">>,
     <<"$9.00", "08/15/24", "", "7", "12", "A", "", "7", "12", "FOO STORE", "BAR">>,
     <<"$9.00", "08/15/24", "", "7", "12", "A", "", "7", "12", "A", "FOO STORE">>,
     <<"$9.00", "08/15/24", "FOO STORE", "$1.00", "08/16/24", "BAR STORE">>,
     <<"$9.00", "08/15/24", "FOO STORE", "08/16/24", "BAR STORE">>,
     <<"08/15/24 FOO STORE", "$9.00", "08/15/24", "FOO STORE">>,
     <<"08/15/24 FOO STORE", "08/16/24 BAR STORE", "$5.00">>,
     <<"08/16/24 Payment - Thank You", "$5.00">>,
     <<"$9.00", "08/15/24", "AUTOPAY PAYMENT", "FOO STORE">>}

LongStatements == {InlinePairs(n) \o t : n \in 0..MaxInline, t \in StatementTails}

WalmartStatement == <<"08/15/24 WALMART.COM 800-925-6278", "$45.23">>

RepeatedStatements ==
    {WalmartStatement,
     <<"$45.23", "08/15/24", "WALMART.COM", "08/15/24 WALMART.COM 800-925-6278", "-$45.23">>,
     <<"">>}

\* the statement files of a batch: readable is FALSE when PyPDF2 cannot read the file
BatchFiles ==
    {[name |-> "amex_gold_2023_12.pdf", readable |-> TRUE,
      text |-> <<"American Express Gold Card", "12/01/23 FOO STORE", "$45.23">>],
     [name |-> "statement_2024_01.pdf", readable |-> TRUE,
      text |-> <<"Chase Sapphire  Preferred Card", "01/05/24 BAR SHOP", "-$53.97",
                 "01/05/24 FOO STORE", "$45.23">>],
     [name |-> "boa_scan.pdf", readable |-> FALSE, text |-> <<>>],
     [name |-> "summary.pdf", readable |-> TRUE, text |-> <<"Account Summary">>]}

RECURSIVE SeqsUpTo(_, _)
SeqsUpTo(S, n) ==
    IF n = 0 THEN {<<>>}
    ELSE LET shorter == SeqsUpTo(S, n - 1)
         IN shorter \cup {Append(q, e) : q \in {r \in shorter : Len(r) = n - 1}, e \in S}

Statements == SeqsUpTo(StatementLines, MaxLines) \ {<<>>}
BofaStatements == SeqsUpTo(BofaLines, MaxLines) \ {<<>>}
SectionStatements == SeqsUpTo(SectionLines, MaxSectionLines) \ {<<>>}

Range(q) == {q[k] : k \in 1..Len(q)}

\* what the parsers read off each line of these statements, computed once
KnownLines ==
    StatementLines \cup BofaLines \cup SectionLines
        \cup UNION {Range(t) : t \in RepeatedStatements \cup LongStatements}
        \cup UNION {Range(f.text) : f \in BatchFiles}
InlineOf == [l \in KnownLines |-> InlineLine(l)]
AmountOf == [l \in KnownLines |-> AmountOnLine(l)]
SplitOf == [l \in KnownLines |-> SplitLine(l)]
ClosingOf == [l \in KnownLines |-> ClosingLine(l)]
StartOf == [l \in KnownLines |-> StartLine(l)]
RowOf == [l \in KnownLines |-> RowLine(l)]
Inline(l) == IF l \in KnownLines THEN InlineOf[l] ELSE InlineLine(l)
Amount(l) == IF l \in KnownLines THEN AmountOf[l] ELSE AmountOnLine(l)
SplitL(l) == IF l \in KnownLines THEN SplitOf[l] ELSE SplitLine(l)
Closing(l) == IF l \in KnownLines THEN ClosingOf[l] ELSE ClosingLine(l)
Start(l) == IF l \in KnownLines THEN StartOf[l] ELSE StartLine(l)
Row(l) == IF l \in KnownLines THEN RowOf[l] ELSE RowLine(l)

(***************************************************************************)
(* State.  kind, current_bank, current_card: the parser object in use.     *)
(* pending, returned: the texts a caller still passes to parse_transactions*)
(* of that object, and the (text, result) of every call that has returned. *)
(* lines, pc, i, transactions, seen_descriptions: the locals of the        *)
(* parse_transactions call in progress and its position.  A transaction    *)
(* carries two history fields the program does not store: line, the index  *)
(* of the line the loop stood at when it was appended, and layout.         *)
(* statement_year, statement_month: BankOfAmericaParser's closing date.    *)
(* files, all_transactions, mainpc: the batch loop of main().              *)
(* pdf_file: the loop variable of the batch loop; parked: the locals of a  *)
(* second worker running the same loop body on the same parser object,     *)
(* while it is not the one taking steps.                                   *)
(* request: the arguments of BankParserFactory.get_parser, or of           *)
(* BankOfAmericaParser.extract_card_name.                                  *)
(* transaction, labels: the transaction the categorizer is labelling, and  *)
(* what extract_merchant returned for its description, call after call.    *)
(***************************************************************************)
VARIABLES kind, current_bank, current_card, pending, returned,
          lines, pc, i, transactions, seen_descriptions,
          statement_year, statement_month, files, all_transactions, mainpc,
          pdf_file, parked, request, transaction, labels

vars == <<kind, current_bank, current_card, pending, returned,
          lines, pc, i, transactions, seen_descriptions,
          statement_year, statement_month, files, all_transactions, mainpc,
          pdf_file, parked, request, transaction, labels>>
parserVars == <<kind, current_bank, current_card>>
closingVars == <<statement_year, statement_month>>
mainVars == <<files, all_transactions, mainpc>>
workerVars == <<pdf_file, parked>>
labelVars == <<request, transaction, labels>>

\* LinesToCheck with the source's 0-based comparisons kept on 1-based indices
C5_ShortLookahead(ls, n) ==
    IF n + 2 < Len(ls) THEN <<n + 1, n + 2>>
    ELSE IF n + 1 < Len(ls) THEN <<n + 1>> ELSE <<>>

\* lines_to_check = [i + 1, i + 2] if i + 2 < len(lines) else [i + 1] if i + 1 < len(lines) else []
LinesToCheck(ls, n) ==
    IF n + 2 <= Len(ls) THEN <<n + 1, n + 2>>
    ELSE IF n + 1 <= Len(ls) THEN <<n + 1>> ELSE <<>>

\* the loop over lines_to_check: the first line with an amount decides
RECURSIVE FindAmount(_, _)
FindAmount(ls, idxs) ==
    IF idxs = <<>> THEN [found |-> FALSE, is_credit |-> FALSE, amount |-> None]
    ELSE LET a == Amount(ls[Head(idxs)])
         IN IF a.found THEN a ELSE FindAmount(ls, Tail(idxs))

\* transactions without the label of the parser object
C19_NoLabel == None

\* self.bank_name of the issuer parsers, self.current_bank of BankStatementParser
BankLabel ==
    CASE kind = "amex" -> "American Express"
      [] kind = "bofa" -> "Bank of America"
      [] OTHER -> current_bank

Txn(date, description, amount, layout) ==
    [date |-> date, description |-> description, amount |-> amount,
     bank |-> BankLabel, card |-> current_card, line |-> i, layout |-> layout]

\* the append placed at the head of the list
C11_Prepend(key, t) ==
    IF key \notin seen_descriptions
    THEN /\ transactions' = <<t>> \o transactions
         /\ seen_descriptions' = seen_descriptions \cup {key}
    ELSE UNCHANGED <<transactions, seen_descriptions>>

\* the append guarded by the dedup key, shared by all layouts
Emit(key, t) ==
    IF key \notin seen_descriptions
    THEN /\ transactions' = Append(transactions, t)
         /\ seen_descriptions' = seen_descriptions \cup {key}
    ELSE UNCHANGED <<transactions, seen_descriptions>>

\* seen_descriptions kept from the call before
C9_KeptSeen == seen_descriptions

\* the locals of a call that was just entered
FreshSeen == {}

\* parse_transactions(text) is entered: fresh locals
Enter(text) ==
    /\ lines' = text
    /\ transactions' = <<>>
    /\ seen_descriptions' = FreshSeen
    /\ i' = 1
    /\ pc' = IF kind = "bofa" THEN "locate" ELSE "inline"
    /\ statement_year' = None
    /\ statement_month' = NoMonth

\* a caller invokes parse_transactions of the parser object on its next text
Call ==
    /\ pc = "idle" /\ mainpc = "none" /\ pending # <<>>
    /\ Enter(Head(pending))
    /\ pending' = Tail(pending)
    /\ UNCHANGED <<parserVars, returned, mainVars, workerVars, labelVars>>

\* InlineStep whose skip of a payment line leaves the line index as it is
C30_StuckOnPayment ==
    /\ pc = "inline" /\ i <= Len(lines)
    /\ i' = IF Inline(lines[i]).ok /\ Inline(lines[i]).payment THEN i ELSE i + 1
    /\ UNCHANGED <<parserVars, pending, returned, lines, pc, closingVars, mainVars, workerVars, labelVars>>
    /\ LET l == Inline(lines[i])
           a == FindAmount(lines, LinesToCheck(lines, i))
       IN IF l.ok /\ ~l.payment /\ a.found /\ Len(l.description) > MinDescription
             /\ Len(l.cleaned) > MinDescription
          THEN Emit(DedupKey(l.date, l.cleaned, a.amount),
                    Txn(l.date, l.cleaned, InlineFinalAmount(a.amount, a.is_credit), "inline"))
          ELSE UNCHANGED <<transactions, seen_descriptions>>

\* one iteration of the inline-layout loop (AmexParser format 1, BankStatementParser)
InlineStep ==
    /\ pc = "inline" /\ i <= Len(lines)
    /\ i' = i + 1
    /\ UNCHANGED <<parserVars, pending, returned, lines, pc, closingVars, mainVars, workerVars, labelVars>>
    /\ LET l == Inline(lines[i])
           a == FindAmount(lines, LinesToCheck(lines, i))
       IN IF l.ok /\ ~l.payment /\ a.found /\ Len(l.description) > MinDescription
             /\ Len(l.cleaned) > MinDescription
          THEN Emit(DedupKey(l.date, l.cleaned, a.amount),
                    Txn(l.date, l.cleaned, InlineFinalAmount(a.amount, a.is_credit), "inline"))
          ELSE UNCHANGED <<transactions, seen_descriptions>>

\* GatherParts that does not stop at an amount or a date
RECURSIVE C27_GatherPastStops(_, _, _, _)
C27_GatherPastStops(ls, j, last, parts) ==
    IF j > last THEN parts
    ELSE LET d == SplitL(ls[j])
             more == IF d.part THEN Append(parts, d.text) ELSE parts
         IN IF Len(more) >= SplitMaxParts THEN more
            ELSE C27_GatherPastStops(ls, j + 1, last, more)

\* for j in range(i + 2, min(i + 10, len(lines))): the description lines gathered
RECURSIVE GatherParts(_, _, _, _)
GatherParts(ls, j, last, parts) ==
    IF j > last THEN parts
    ELSE LET d == SplitL(ls[j])
         IN IF d.amount_only \/ d.date_only THEN parts
            ELSE LET more == IF d.part THEN Append(parts, d.text) ELSE parts
                 IN IF Len(more) >= SplitMaxParts THEN more
                    ELSE GatherParts(ls, j + 1, last, more)

\* ' '.join(description_parts[:5]).strip(), cleaned
SplitDescription(parts) ==
    CleanSplit(Strip(Join(SubSeq(parts, 1, Min(SplitJoinParts, Len(parts))))))

\* the descriptions of the split triples of the long statements, computed once
KnownParts ==
    UNION {{GatherParts(t, k + 2, Min(k + SplitLookahead - 1, Len(t)), <<>>) :
                k \in 1..Len(t)} : t \in LongStatements}
SplitDescriptionOf == [parts \in KnownParts |-> SplitDescription(parts)]
Described(parts) ==
    IF parts \in KnownParts THEN SplitDescriptionOf[parts] ELSE SplitDescription(parts)

\* NeedsSplit with the comparison turned round
C7_SplitWhenMany(n) == kind = "amex" /\ n > SplitThreshold

\* NeedsSplit whatever the inline loop found
C26_AlwaysSplit(n) == kind = "amex"

\* does the inline loop hand over to the second format
NeedsSplit(n) == kind = "amex" /\ n < SplitThreshold

\* one iteration of the split-layout loop (AmexParser format 2)
SplitStep ==
    /\ pc = "split" /\ i <= Len(lines)
    /\ i' = i + 1
    /\ UNCHANGED <<parserVars, pending, returned, lines, pc, closingVars, mainVars, workerVars, labelVars>>
    /\ LET l == SplitL(lines[i])
       IN IF l.amount_only /\ i + 1 <= Len(lines)
          THEN LET a == SplitAmount(l.text)
                   next == SplitL(lines[i + 1])
                   parts == GatherParts(lines, i + 2,
                                        Min(i + SplitLookahead - 1, Len(lines)), <<>>)
                   description == Described(parts)
               IN IF ~next.date_only
                  THEN UNCHANGED <<transactions, seen_descriptions>>
                  ELSE IF i + 2 <= Len(lines) /\ SplitL(lines[i + 2]).payment
                  THEN UNCHANGED <<transactions, seen_descriptions>>
                  ELSE IF parts # <<>> /\ Len(description) > MinDescription
                  THEN Emit(DedupKey(next.text, description, a.amount),
                            Txn(next.text, description,
                                IF a.is_credit THEN "-" \o a.amount ELSE a.amount, "split"))
                  ELSE UNCHANGED <<transactions, seen_descriptions>>
          ELSE UNCHANGED <<transactions, seen_descriptions>>

\* parse_transactions returns its list to the caller
ReturnTo == /\ returned' = Append(returned, [text |-> lines, result |-> transactions])
            /\ pc' = "idle"

\* the inline loop ends: AmexParser goes on to the second format when it found
\* fewer than SplitThreshold transactions, anything else returns
InlineExit ==
    /\ pc = "inline" /\ i > Len(lines)
    /\ IF NeedsSplit(Len(transactions))
       THEN pc' = "split" /\ i' = 1 /\ UNCHANGED returned
       ELSE ReturnTo /\ UNCHANGED i
    /\ UNCHANGED <<parserVars, pending, lines, transactions, seen_descriptions,
                   closingVars, mainVars, workerVars, labelVars>>

\* the split loop ends
SplitExit ==
    /\ pc = "split" /\ i > Len(lines)
    /\ ReturnTo
    /\ UNCHANGED <<parserVars, pending, lines, i, transactions, seen_descriptions,
                   closingVars, mainVars, workerVars, labelVars>>

(***************************************************************************)
(* BankOfAmericaParser.parse_transactions                                  *)
(***************************************************************************)
\* the loop that looks for the closing date: the first line that carries one decides
RECURSIVE ClosingScan(_, _)
ClosingScan(ls, n) ==
    IF n > Len(ls) THEN [found |-> FALSE, year |-> None, month |-> NoMonth]
    ELSE IF Closing(ls[n]).found THEN Closing(ls[n]) ELSE ClosingScan(ls, n + 1)

\* ... and the default when no year was found
ClosingDate(ls) ==
    LET c == ClosingScan(ls, 1)
    IN IF c.year = None THEN [year |-> DefaultYear, month |-> DefaultMonth]
       ELSE [year |-> c.year, month |-> c.month]

\* the section taken to start with the first line of the text
C23_FromTop(ls, n) == 1

\* the index of the first line after the section-start marker, 0 when there is none
RECURSIVE TransactionStart(_, _)
TransactionStart(ls, n) ==
    IF n > Len(ls) THEN 0
    ELSE IF Start(ls[n]) THEN n + 1 ELSE TransactionStart(ls, n + 1)

\* the closing date and the start of the transactions section are located
BofaLocate ==
    /\ pc = "locate"
    /\ LET closing == ClosingDate(lines)
           transaction_start == TransactionStart(lines, 1)
       IN /\ statement_year' = closing.year
          /\ statement_month' = closing.month
          /\ IF transaction_start = 0
             THEN ReturnTo /\ UNCHANGED i
             ELSE pc' = "rows" /\ i' = transaction_start /\ UNCHANGED returned
    /\ UNCHANGED <<parserVars, pending, lines, transactions, seen_descriptions, mainVars, workerVars, labelVars>>

\* FullDate without the year
C3_NoYear(transaction_date, year, month) == transaction_date

\* transaction_date with the year the closing date gives it
FullDate(transaction_date, year, month) ==
    transaction_date \o "/" \o TransYear(ToInt(SubSeq(transaction_date, 1, 2)), year, month)

\* one iteration of the loop over the lines of the transactions section
BofaStep ==
    /\ pc = "rows" /\ i <= Len(lines)
    /\ UNCHANGED <<parserVars, pending, lines, closingVars, mainVars, workerVars, labelVars>>
    /\ LET l == Row(lines[i])
       IN IF l.section_end
          THEN ReturnTo /\ UNCHANGED <<i, transactions, seen_descriptions>>
          ELSE IF ~l.ok
          THEN i' = i + 1 /\ UNCHANGED <<pc, returned, transactions, seen_descriptions>>
          ELSE IF statement_month = NoMonth
          THEN \* trans_month > None raises TypeError out of parse_transactions
               pc' = "raised" /\ UNCHANGED <<i, returned, transactions, seen_descriptions>>
          ELSE LET full_date == FullDate(l.transaction_date, statement_year, statement_month)
               IN /\ i' = i + 1
                  /\ UNCHANGED <<pc, returned>>
                  /\ IF l.description # ""
                     THEN Emit(DedupKey(full_date, l.description, l.stored),
                               Txn(full_date, l.description, l.final_amount, "columns"))
                     ELSE UNCHANGED <<transactions, seen_descriptions>>

\* the loop over the section ends with the text
BofaExit ==
    /\ pc = "rows" /\ i > Len(lines)
    /\ ReturnTo
    /\ UNCHANGED <<parserVars, pending, lines, i, transactions, seen_descriptions,
                   closingVars, mainVars, workerVars, labelVars>>

(***************************************************************************)
(* BankStatementParser.extract_bank_name, extract_card_name and the batch  *)
(* loop of main() / process_expenses()                                     *)
(***************************************************************************)
\* a literal under re.IGNORECASE
RECURSIVE Lit(_)
Lit(s) ==
    IF s = "" THEN <<>>
    ELSE <<Rx({StrUpper(Char(s, 1)), StrLower(Char(s, 1))}, 1, 1)>>
           \o Lit(SubSeq(s, 2, Len(s)))

NoAlt == [ok |-> FALSE, start |-> 0, ends |-> <<>>, alt |-> 0]

\* an alternation at position p: the first alternative that matches
RECURSIVE FirstAlt(_, _, _, _)
FirstAlt(s, alts, p, k) ==
    IF k > Len(alts) THEN NoAlt
    ELSE LET r == MatchFrom(s, p, alts[k], 1, FALSE)
         IN IF r.ok THEN [ok |-> TRUE, start |-> p, ends |-> r.ends, alt |-> k]
            ELSE FirstAlt(s, alts, p, k + 1)

\* re.search of an alternation
RECURSIVE SearchAlts(_, _, _)
SearchAlts(s, alts, p) ==
    IF p > Len(s) + 1 THEN NoAlt
    ELSE LET r == FirstAlt(s, alts, p, 1)
         IN IF r.ok THEN r ELSE SearchAlts(s, alts, p + 1)

TierWords == <<"Platinum", "Sapphire", "Preferred", "Reserve", "Signature", "Elite", "Premier">>
CardWords == <<"Gold">> \o TierWords

\* card_patterns, each an alternation; group 1 is the whole match except in the
\* last pattern, where it is the word before "Card"
\* (American Express[®]?\s+Gold\s+Card)
GoldRx == Lit("American Express") \o <<Opt("®"), Plus(Space)>> \o Lit("Gold")
            \o <<Plus(Space)>> \o Lit("Card")
\* (Blue Cash Everyday[®]?\s+from\s+American Express)
BlueRx == Lit("Blue Cash Everyday") \o <<Opt("®"), Plus(Space)>> \o Lit("from")
            \o <<Plus(Space)>> \o Lit("American Express")
\* (American Express[®]?\s+(?:Platinum|...|Premier)[®]?)
TierRx == [k \in 1..Len(TierWords) |->
             Lit("American Express") \o <<Opt("®"), Plus(Space)>> \o Lit(TierWords[k])
               \o <<Opt("®")>>]
\* (Gold|Platinum|...|Premier)\s+(?:Card|Card®)
WordRx == [k \in 1..Len(CardWords) |-> Lit(CardWords[k]) \o <<Plus(Space)>> \o Lit("Card")]

card_patterns ==
    <<[alts |-> <<GoldRx>>, whole |-> TRUE], [alts |-> <<BlueRx>>, whole |-> TRUE],
      [alts |-> TierRx, whole |-> TRUE], [alts |-> WordRx, whole |-> FALSE]>>

\* the loop over card_patterns on the first line
RECURSIVE CardFromLine(_, _)
CardFromLine(first_line, k) ==
    IF k > Len(card_patterns) THEN None
    ELSE LET pattern == card_patterns[k]
             match == SearchAlts(first_line, pattern.alts, 1)
             last == IF pattern.whole THEN Len(pattern.alts[match.alt])
                     ELSE Len(CardWords[match.alt])
         IN IF match.ok THEN Collapse(Strip(Group(first_line, match, 1, last)))
            ELSE CardFromLine(first_line, k + 1)

extract_card_name(text, pdf_filename) ==
    LET card_name == CardFromLine(Strip(text[1]), 1)
        name == StrLower(pdf_filename)
    IN IF card_name # None THEN card_name
       ELSE IF Contains(name, "gold") THEN "American Express® Gold Card"
       ELSE IF Contains(name, "platinum") THEN "American Express® Platinum Card"
       ELSE IF Contains(name, "blue") THEN "Blue Cash Everyday® from American Express"
       ELSE "Standard Card"

bank_names == <<"American Express", "Chase", "Bank of America", "Wells Fargo",
                "Citibank", "Discover", "Capital One", "US Bank">>

\* the first bank name that occurs in the text, case-insensitively
RECURSIVE BankFromText(_, _)
BankFromText(text, k) ==
    IF k > Len(bank_names) THEN None
    ELSE IF \E n \in 1..Len(text) : Contains(StrLower(text[n]), StrLower(bank_names[k]))
         THEN bank_names[k]
         ELSE BankFromText(text, k + 1)

extract_bank_name(text, pdf_filename) ==
    LET bank_name == BankFromText(text, 1)
        name == StrLower(pdf_filename)
    IN IF bank_name # None THEN bank_name
       ELSE IF Contains(name, "amex") THEN "American Express"
       ELSE IF Contains(name, "chase") THEN "Chase"
       ELSE IF Contains(name, "boa") THEN "Bank of America"
       ELSE IF Contains(name, "wells") THEN "Wells Fargo"
       ELSE "Unknown Bank"

\* extract_text_from_pdf: the text of the pages, "" when the file cannot be read
extract_text_from_pdf(f) == IF f.readable THEN f.text ELSE <<"">>

\* the order of str: by code point, a proper prefix first (the quotes, the
\* backslash and the backtick occur in no text here)
Ascii == " !#$%&()*+,-./0123456789:;<=>?@ABCDEFGHIJKLMNOPQRSTUVWXYZ[]^_"
           \o "abcdefghijklmnopqrstuvwxyz{|}~"
CodePoint == [c \in {Char(Ascii, k) : k \in 1..Len(Ascii)} |->
                CHOOSE k \in 1..Len(Ascii) : Char(Ascii, k) = c]

RECURSIVE StrLess(_, _)
StrLess(a, b) ==
    IF b = "" THEN FALSE
    ELSE IF a = "" THEN TRUE
    ELSE IF Char(a, 1) = Char(b, 1) THEN StrLess(SubSeq(a, 2, Len(a)), SubSeq(b, 2, Len(b)))
    ELSE CodePoint[Char(a, 1)] < CodePoint[Char(b, 1)]

\* where a stable descending sort puts t among the elements sorted before it
RECURSIVE InsertReverse(_, _)
InsertReverse(q, t) ==
    IF q = <<>> THEN <<t>>
    ELSE IF StrLess(Head(q).date, t.date) THEN <<t>> \o q
    ELSE <<Head(q)>> \o InsertReverse(Tail(q), t)

\* all_transactions.sort(key=lambda x: x.get('date', ''), reverse=True)
RECURSIVE SortReverse(_)
SortReverse(q) ==
    IF q = <<>> THEN <<>>
    ELSE InsertReverse(SortReverse(SubSeq(q, 1, Len(q) - 1)), q[Len(q)])

\* sorted(list(input_dir.glob("*.pdf")))
RECURSIVE SortedFiles(_)
SortedFiles(S) ==
    IF S = {} THEN <<>>
    ELSE LET f == CHOOSE g \in S : \A h \in S \ {g} : StrLess(g.name, h.name)
         IN <<f>> \o SortedFiles(S \ {f})

\* the body of the loop over pdf_files up to the call of parse_transactions
ProcessFile ==
    /\ mainpc = "loop" /\ pc = "idle" /\ files # <<>>
    /\ LET file == Head(files)
           text == extract_text_from_pdf(file)
       IN /\ pdf_file' = file
          /\ current_bank' = extract_bank_name(text, file.name)
          /\ current_card' = extract_card_name(text, file.name)
          /\ Enter(text)
    /\ files' = Tail(files)
    /\ mainpc' = "parsing"
    /\ UNCHANGED <<kind, pending, returned, all_transactions, parked, labelVars>>

\* all_transactions.extend(transactions), once the call has returned
Extend ==
    /\ mainpc = "parsing" /\ pc = "idle"
    /\ all_transactions' = all_transactions \o transactions
    /\ mainpc' = "loop"
    /\ UNCHANGED <<parserVars, pending, returned, lines, pc, i, transactions,
                   seen_descriptions, closingVars, files, workerVars, labelVars>>

\* a batch that ends at the first statement without transactions
C18_EndAtEmptyResult ==
    /\ mainpc = "loop" /\ pc = "idle" /\ (files = <<>> \/ transactions = <<>>)
    /\ all_transactions' = SortReverse(all_transactions)
    /\ mainpc' = "sorted"
    /\ UNCHANGED <<parserVars, pending, returned, lines, pc, i, transactions,
                   seen_descriptions, closingVars, files, workerVars, labelVars>>

\* the sort after the loop
SortAll ==
    /\ mainpc = "loop" /\ pc = "idle" /\ files = <<>>
    /\ all_transactions' = SortReverse(all_transactions)
    /\ mainpc' = "sorted"
    /\ UNCHANGED <<parserVars, pending, returned, lines, pc, i, transactions,
                   seen_descriptions, closingVars, files, workerVars, labelVars>>

\* the registered parser classes in the opposite order
C12_BofaFirst == <<"bofa", "amex">>

(***************************************************************************)
(* BankParserFactory                                                       *)
(***************************************************************************)
\* the registered parser classes, in the order of the list
PARSERS == <<"amex", "bofa">>

\* needle in text.lower(): no needle holds a line break, so it occurs in the
\* text exactly when it occurs in one of its lines
InText(text, needle) == \E n \in 1..Len(text) : Contains(StrLower(text[n]), needle)

\* detect_bank of the parser class cls
detect_bank(cls, text, filename) ==
    IF cls = "amex"
    THEN InText(text, "american express") \/ Contains(StrLower(filename), "amex")
    ELSE \/ InText(text, "bank of america")
         \/ Contains(StrLower(filename), "bofa")
         \/ InText(text, "bankofamerica")

\* the loop over PARSERS from position k, then the default
RECURSIVE FirstDetected(_, _, _)
FirstDetected(text, filename, k) ==
    IF k > Len(PARSERS) THEN "amex"
    ELSE IF detect_bank(PARSERS[k], text, filename) THEN PARSERS[k]
         ELSE FirstDetected(text, filename, k + 1)

get_parser(text, filename) == FirstDetected(text, filename, 1)

\* a caller asks the factory for the parser of a statement
GetParser ==
    /\ mainpc = "factory" /\ kind = None
    /\ kind' = get_parser(request.text, request.filename)
    /\ mainpc' = "none"
    /\ UNCHANGED <<current_bank, current_card, pending, returned, lines, pc, i,
                   transactions, seen_descriptions, closingVars, files,
                   all_transactions, workerVars, labelVars>>

(***************************************************************************)
(* BankOfAmericaParser.extract_card_name                                   *)
(***************************************************************************)
\* header = text[:1000]
HeaderLength == 1000

\* the product names looked for in the header, in the order of the if chain,
\* and the label returned for each
ProductNames ==
    <<[name |-> "Visa Signature", label |-> "Bank of America Visa Signature"],
      [name |-> "Cash Rewards", label |-> "Bank of America Cash Rewards"],
      [name |-> "Travel Rewards", label |-> "Bank of America Travel Rewards"],
      [name |-> "Customized Cash Rewards",
       label |-> "Bank of America Customized Cash Rewards"]>>

\* the text of a statement: its lines with a line break between them
RECURSIVE JoinLines(_)
JoinLines(q) ==
    IF q = <<>> THEN ""
    ELSE IF Len(q) = 1 THEN q[1]
    ELSE q[1] \o "\n" \o JoinLines(Tail(q))

\* the if / elif chain: the first product name found in the header decides
RECURSIVE FirstProduct(_, _)
FirstProduct(header, k) ==
    IF k > Len(ProductNames) THEN "Bank of America Credit Card"
    ELSE IF Contains(header, ProductNames[k].name) THEN ProductNames[k].label
    ELSE FirstProduct(header, k + 1)

\* BankOfAmericaParser.extract_card_name(text, filename)
bofa_extract_card_name(text, filename) ==
    FirstProduct(SubSeq(text, 1, Min(HeaderLength, Len(text))), 1)

\* a caller asks the Bank of America parser for the card of a statement and
\* keeps the answer in current_card
ExtractCardName ==
    /\ mainpc = "card" /\ kind = "bofa"
    /\ current_card' = bofa_extract_card_name(JoinLines(request.text), request.filename)
    /\ mainpc' = "none"
    /\ UNCHANGED <<kind, current_bank, pending, returned, lines, pc, i,
                   transactions, seen_descriptions, closingVars, files,
                   all_transactions, workerVars, labelVars>>

(***************************************************************************)
(* MerchantExtractor                                                       *)
(***************************************************************************)
\* the literals of one alternation, each under re.IGNORECASE
Lits(words) == [k \in 1..Len(words) |-> Lit(words[k])]

\* MERCHANT_PATTERNS, in the order in which the dict is iterated
MERCHANT_PATTERNS == <<
    [alts |-> Lits(<<"UBER", "UberXL", "UBER EATS">>), name |-> "Uber"],
    [alts |-> Lits(<<"NETFLIX", "NETFLIX.COM">>), name |-> "Netflix"],
    [alts |-> Lits(<<"DISNEY", "DISNEYPLUS">>), name |-> "Disney+"],
    [alts |-> Lits(<<"AMAZON", "AMZN">>), name |-> "Amazon"],
    [alts |-> <<Lit("WAL") \o <<Opt("-")>> \o Lit("MART"), Lit("WALMART")>>,
     name |-> "Walmart"],
    [alts |-> Lits(<<"CVS", "CVS/PHARMACY">>), name |-> "CVS Pharmacy"],
    [alts |-> Lits(<<"WHOLE FOODS", "WHOLEFOODS">>), name |-> "Whole Foods"],
    [alts |-> Lits(<<"TARGET", "TGT">>), name |-> "Target"],
    [alts |-> Lits(<<"COSTCO", "COSTCO WHOLESALE">>), name |-> "Costco"],
    [alts |-> Lits(<<"BEST BUY", "BESTBUY">>), name |-> "Best Buy"],
    [alts |-> Lits(<<"HOME DEPOT", "HOMEDEPOT">>), name |-> "Home Depot"],
    [alts |-> <<Lit("LOWES"), Lit("LOWE") \o <<Opt("'")>> \o Lit("S")>>,
     name |-> "Lowes"],
    [alts |-> Lits(<<"CHIPOTLE", "CHIPOLTE">>), name |-> "Chipotle"],
    [alts |-> Lits(<<"STARBUCKS", "SBUX">>), name |-> "Starbucks"],
    [alts |-> <<Lit("MCDONALDS"), Lit("MCDONALD") \o <<Opt("'")>> \o Lit("S"),
                Lit("MCDONALDs")>>,
     name |-> "McDonalds"],
    [alts |-> <<Lit("CHICK") \o <<Opt("-")>> \o Lit("FIL") \o <<Opt("-")>> \o Lit("A"),
                Lit("CHICKFILA")>>,
     name |-> "Chick-fil-A"],
    [alts |-> Lits(<<"PANERA", "PANERA BREAD">>), name |-> "Panera"],
    [alts |-> Lits(<<"TACO BELL", "TACOBELL">>), name |-> "Taco Bell"],
    [alts |-> Lits(<<"STARBUCKS">>), name |-> "Starbucks"],
    [alts |-> Lits(<<"OPENAI", "CHATGPT">>), name |-> "OpenAI"],
    [alts |-> Lits(<<"GOOGLE", "GOOGLE PLAY">>), name |-> "Google"],
    [alts |-> Lits(<<"APPLE", "ITUNES", "APP STORE">>), name |-> "Apple"],
    [alts |-> Lits(<<"MICROSOFT", "XBOX">>), name |-> "Microsoft"],
    [alts |-> Lits(<<"SPOTIFY">>), name |-> "Spotify"],
    [alts |-> Lits(<<"HULU">>), name |-> "Hulu"],
    [alts |-> Lits(<<"MAX", "HBO">>), name |-> "Max/HBO"],
    [alts |-> Lits(<<"YELLOW CAB", "YELLOW TAXI">>), name |-> "Yellow Cab"],
    [alts |-> Lits(<<"LYFT">>), name |-> "Lyft"],
    [alts |-> Lits(<<"AIRBNB", "AIR BNB">>), name |-> "Airbnb"],
    [alts |-> Lits(<<"HOTEL", "INN", "RESORT">>), name |-> "Hotel"],
    [alts |-> Lits(<<"AIRLINE", "DELTA", "UNITED", "AMERICAN", "SOUTHWEST">>),
     name |-> "Airline"],
    [alts |-> Lits(<<"SHELL", "EXXON", "CHEVRON", "MOBIL">>), name |-> "Gas Station"],
    [alts |-> Lits(<<"CVS", "WALGREENS", "RITE AID", "PHARMACY">>), name |-> "Pharmacy"],
    [alts |-> Lits(<<"WHOLE FOODS", "KROGER", "SAFEWAY", "TRADER JOES", "SPROUTS">>),
     name |-> "Grocery"] >>

\* re.search(pattern, description, re.IGNORECASE) for entry k of the table
EntryMatches(description, k) == SearchAlts(description, MERCHANT_PATTERNS[k].alts, 1).ok

\* the loop over the table taking the last entry found in the description
C14_LastEntry(description, k) ==
    LET found == {j \in k..Len(MERCHANT_PATTERNS) : EntryMatches(description, j)}
    IN IF found = {} THEN 0 ELSE CHOOSE j \in found : \A h \in found : h <= j

\* the loop over the table from entry k: the first entry found in the
\* description, 0 when there is none
RECURSIVE FirstEntry(_, _)
FirstEntry(description, k) ==
    IF k > Len(MERCHANT_PATTERNS) THEN 0
    ELSE IF EntryMatches(description, k) THEN k
         ELSE FirstEntry(description, k + 1)

\* ^(?:AplPay|Apply|Apay|PAY\*|TST\*|POS\*)\s+ under re.IGNORECASE
PrefixRx ==
    [k \in 1..6 |-> Lit(<<"AplPay", "Apply", "Apay", "PAY*", "TST*", "POS*">>[k])
                      \o <<Plus(Space)>>]
\* \s+\d{2,}[-\s]*\w{2}\s*$
TrailingCodeRx ==
    <<Plus(Space), Rx(Digit, 2, -1), Star(Space \cup {"-"}), Rx(WordChar, 2, 2),
      Star(Space)>>
\* \s+\d{9,}, which .*$ follows to the end of the text
LongNumberRx == <<Plus(Space), Rx(Digit, 9, -1)>>
\* ^([A-Z][A-Z\s&/]+?) and the alternatives of (?:\s+\d+|-|00|$) after it
NameRx == <<Rx(UpperAZ, 1, 1), RxLazy(UpperAZ \cup Space \cup {"&", "/"}, 1, -1)>>
NameEnds == << <<Plus(Space), Plus(Digit)>>, <<Ch("-")>>, <<Ch("0"), Ch("0")>>, <<>> >>
\* [\s#\-\*]
Separators == Space \cup {"#", "-", "*"}

\* re.search(pat + '$', s), from position p on
RECURSIVE SearchEnd(_, _, _)
SearchEnd(s, pat, p) ==
    IF p > Len(s) + 1 THEN NoMatch
    ELSE LET r == MatchFrom(s, p, pat, 1, TRUE)
         IN IF r.ok THEN [ok |-> TRUE, start |-> p, ends |-> r.ends]
            ELSE SearchEnd(s, pat, p + 1)

\* where group 1 of the name pattern ends: the lazy group takes the fewest
\* characters after which one of the alternatives matches; 0 without a match
NameEndBefore(s, k) ==
    LET r == MatchFrom(s, 1, NameRx \o NameEnds[k], 1, k = Len(NameEnds))
    IN IF r.ok THEN r.ends[2] ELSE 0
NameEnd(s) ==
    LET found == {NameEndBefore(s, k) : k \in 1..Len(NameEnds)} \ {0}
    IN IF found = {} THEN 0 ELSE CHOOSE e \in found : \A f \in found : e <= f

\* re.split(r'[\s#\-\*]', s): a part ends at every separator, empty parts stay
RECURSIVE SplitAt(_, _, _)
SplitAt(s, p, cur) ==
    IF p > Len(s) THEN <<cur>>
    ELSE IF Char(s, p) \in Separators THEN <<cur>> \o SplitAt(s, p + 1, "")
         ELSE SplitAt(s, p + 1, cur \o Char(s, p))

\* the loop that collects up to two meaningful parts
RECURSIVE MerchantParts(_, _)
MerchantParts(parts, merchant_parts) ==
    IF parts = <<>> \/ Len(merchant_parts) >= 2 THEN merchant_parts
    ELSE LET part == Head(parts)
         IN MerchantParts(Tail(parts),
                IF /\ part # "" /\ Len(part) > 2 /\ ~IsDigitStr(part)
                   /\ ~ReMatch(part, <<Rx(UpperAZ, 2, 2)>>, TRUE).ok
                THEN Append(merchant_parts, part) ELSE merchant_parts)

\* Op(v), with v evaluated before Op reads it
Apply(Op(_), v) == CHOOSE r \in {Op(x) : x \in {v}} : TRUE

\* the three re.sub calls that give cleaned
RemovePrefix(s) ==
    LET prefix == FirstAlt(s, PrefixRx, 1, 1)
    IN IF prefix.ok THEN SubSeq(s, prefix.ends[Len(prefix.ends)], Len(s)) ELSE s
RemoveTrailingCode(s) ==
    LET code == SearchEnd(s, TrailingCodeRx, 1)
    IN IF code.ok THEN SubSeq(s, 1, code.start - 1) ELSE s
RemoveLongNumber(s) ==
    LET number == ReSearch(s, LongNumberRx)
    IN IF number.ok THEN SubSeq(s, 1, number.start - 1) ELSE s

\* the fallback on the parts of cleaned
FromParts(parts) ==
    LET merchant_parts == MerchantParts(parts, <<>>)
        first_word == parts[1]
    IN IF merchant_parts # <<>> THEN Join(merchant_parts)
       ELSE IF Len(first_word) > 2 THEN first_word ELSE None

\* the name before numbers and codes, else the fallback
FromCleaned(cleaned) ==
    LET medical_match == NameEnd(cleaned)
        name == Strip(SubSeq(cleaned, 1, medical_match - 1))
    IN IF medical_match > 0 /\ Len(name) > 3 THEN name
       ELSE Apply(FromParts, SplitAt(cleaned, 1, ""))

extract_from_description(description) ==
    Apply(FromCleaned,
          Apply(RemoveLongNumber, Apply(RemoveTrailingCode, RemovePrefix(description))))

\* the heuristic alone, whatever it returns
C13_HeuristicOnly(description) == extract_from_description(description)

extract_merchant(description) ==
    IF description = "" THEN "Unknown"
    ELSE LET k == FirstEntry(description, 1)
         IN IF k > 0 THEN MERCHANT_PATTERNS[k].name
            ELSE LET merchant == extract_from_description(description)
                 IN IF merchant \notin {None, ""} THEN merchant ELSE "Unknown"

\* the descriptions handed to the extractor: the samples, and every text of
\* up to MaxTokens of the tokens joined by single spaces
SampleDescriptions ==
    {"UBER EATS help.uber.com CA", "NETFLIX.COM 866-579-7172 CA",
     "ACME WIDGET CO 4521 PLANO TX", "CVS/PHARMACY", "WHOLE FOODS",
     "AplPay CVS/PHARMACY #11015 000011015 DALLAS TX",
     "TST* RAMEN NARA 00120655 ROGERS AR",
     "BAYLOR SURGICARE AT PLA 214-2913000 TX", "RITE AID", "KROGER",
     "Lowe's #1234", "Apay ACME 12", "AB CD", "123 4567", "a-b", "- -", "   "}
DescriptionTokens ==
    {"", "AB", "ab", "12", "123", "000011015", "#", "TX", "ACME", "CVS"}
Descriptions ==
    SampleDescriptions
        \cup {Join(q) : q \in SeqsUpTo(DescriptionTokens, MaxTokens)}

\* the labels of these descriptions, computed once
MerchantOf == [d \in Descriptions |-> extract_merchant(d)]
Merchant(d) == IF d \in Descriptions THEN MerchantOf[d] ELSE extract_merchant(d)

\* an extractor that looks at the description on its first call only
C15_FirstCallOnly ==
    /\ mainpc = "categorize" /\ Len(labels) < MaxLabelCalls
    /\ LET merchant == IF labels = <<>> THEN Merchant(transaction.description)
                       ELSE "Unknown"
       IN /\ transaction' = [transaction EXCEPT !.merchant = merchant]
          /\ labels' = Append(labels, merchant)
    /\ UNCHANGED <<parserVars, pending, returned, lines, pc, i, transactions,
                   seen_descriptions, closingVars, mainVars, workerVars, request>>

\* the categorizer labels a transaction: one call of extract_merchant on its
\* description, the label stored as its merchant (the category it also stores
\* is not part of this state)
ExtractMerchant ==
    /\ mainpc = "categorize" /\ Len(labels) < MaxLabelCalls
    /\ LET merchant == Merchant(transaction.description)
       IN /\ transaction' = [transaction EXCEPT !.merchant = merchant]
          /\ labels' = Append(labels, merchant)
    /\ UNCHANGED <<parserVars, pending, returned, lines, pc, i, transactions,
                   seen_descriptions, closingVars, mainVars, workerVars, request>>

(***************************************************************************)
(* Specifications.  Spec: a parser object of any of the three classes and  *)
(* the calls of parse_transactions made on it.  SpecBatch: main() over the *)
(* statement files of the input folder.                                    *)
(***************************************************************************)
Idle ==
    /\ statement_year = None
    /\ statement_month = NoMonth
    /\ all_transactions = <<>>
    /\ returned = <<>>
    /\ lines = <<>>
    /\ pc = "idle"
    /\ i = 1
    /\ transactions = <<>>
    /\ seen_descriptions = {}

\* no file taken yet, by a worker that stands before the loop
NoFile == [name |-> None, readable |-> FALSE, text |-> <<>>]
NoWorker == [lines |-> <<>>, pc |-> "idle", i |-> 1, transactions |-> <<>>,
             seen_descriptions |-> {}, mainpc |-> "loop", pdf_file |-> NoFile]
NoWorkers == pdf_file = NoFile /\ parked = NoWorker

\* nothing asked of the factory or of the merchant extractor
NoRequest == [text |-> <<>>, filename |-> None]
NoTransaction == [description |-> None, merchant |-> None]
NoLabels == request = NoRequest /\ transaction = NoTransaction /\ labels = <<>>

Init ==
    /\ \/ /\ kind \in {"amex", "generic"}
          /\ pending \in {<<t>> : t \in Statements}
                           \cup (SeqsUpTo(RepeatedStatements, MaxCalls) \ {<<>>})
       \/ /\ kind = "bofa"
          /\ pending \in {<<t>> : t \in BofaStatements}
    /\ current_bank = None
    /\ current_card = None
    /\ files = <<>>
    /\ mainpc = "none"
    /\ Idle /\ NoWorkers /\ NoLabels

Next ==
    \/ Call
    \/ InlineStep \/ InlineExit
    \/ SplitStep \/ SplitExit
    \/ BofaLocate \/ BofaStep \/ BofaExit

Spec == Init /\ [][Next]_vars

InitBatch ==
    /\ kind = "generic"
    /\ pending = <<>>
    /\ current_bank = None
    /\ current_card = None
    /\ files \in {SortedFiles(S) : S \in {T \in SUBSET BatchFiles :
                                            Cardinality(T) \in 1..MaxFiles}}
    /\ mainpc = "loop"
    /\ Idle /\ NoWorkers /\ NoLabels

NextBatch == ProcessFile \/ InlineStep \/ InlineExit \/ Extend \/ SortAll

SpecBatch == InitBatch /\ [][NextBatch]_vars

\* the statements handed to the factory: texts of up to MaxFactoryLines lines
FactoryLines ==
    {"American Express Gold Card", "BANK OF AMERICA", "www.bankofamerica.com",
     "Account Summary", "AmericanExpress Ending 1234"}
FactoryNames ==
    {"amex_gold_2023_12.pdf", "BofA_2025_01.pdf", "statement_2024_01.pdf",
     "bofa_or_AMEX.pdf"}
Requests ==
    {[text |-> t, filename |-> f] : t \in SeqsUpTo(FactoryLines, MaxFactoryLines),
                                    f \in FactoryNames}

InitFactory ==
    /\ kind = None
    /\ request \in Requests
    /\ pending = <<>>
    /\ current_bank = None
    /\ current_card = None
    /\ files = <<>>
    /\ mainpc = "factory"
    /\ Idle /\ NoWorkers
    /\ transaction = NoTransaction /\ labels = <<>>

NextFactory == GetParser

SpecFactory == InitFactory /\ [][NextFactory]_vars

InitMerchant ==
    /\ kind = "generic"
    /\ transaction \in {[description |-> d, merchant |-> None] : d \in Descriptions}
    /\ labels = <<>>
    /\ request = NoRequest
    /\ pending = <<>>
    /\ current_bank = None
    /\ current_card = None
    /\ files = <<>>
    /\ mainpc = "categorize"
    /\ Idle /\ NoWorkers

NextMerchant == ExtractMerchant

SpecMerchant == InitMerchant /\ [][NextMerchant]_vars

(***************************************************************************)
(* Two workers running the loop body of main() on the parser object of the *)
(* pipeline: the worker that takes steps has its locals in the variables,  *)
(* the other one in parked; kind, current_bank and current_card are the    *)
(* one parser object, files and all_transactions the one batch.            *)
(***************************************************************************)
\* the other worker goes on
Switch ==
    /\ mainpc \in {"loop", "parsing"}
    /\ parked' = [lines |-> lines, pc |-> pc, i |-> i, transactions |-> transactions,
                  seen_descriptions |-> seen_descriptions, mainpc |-> mainpc,
                  pdf_file |-> pdf_file]
    /\ lines' = parked.lines
    /\ pc' = parked.pc
    /\ i' = parked.i
    /\ transactions' = parked.transactions
    /\ seen_descriptions' = parked.seen_descriptions
    /\ mainpc' = parked.mainpc
    /\ pdf_file' = parked.pdf_file
    /\ UNCHANGED <<parserVars, pending, returned, closingVars, files,
                   all_transactions, labelVars>>

\* the sort, once both workers have left the loop body
JoinSort == parked.mainpc = "loop" /\ SortAll

NextWorkers == ProcessFile \/ InlineStep \/ InlineExit \/ Extend \/ Switch \/ JoinSort

SpecWorkers == InitBatch /\ [][NextWorkers]_vars

(***************************************************************************)
(* SpecSection: BankOfAmericaParser.parse_transactions on statements made  *)
(* of the lines around a transactions section.                             *)
(***************************************************************************)
InitSection ==
    /\ kind = "bofa"
    /\ pending \in {<<t>> : t \in SectionStatements}
    /\ current_bank = None
    /\ current_card = None
    /\ files = <<>>
    /\ mainpc = "none"
    /\ Idle /\ NoWorkers /\ NoLabels

NextSection == Call \/ BofaLocate \/ BofaStep \/ BofaExit

SpecSection == InitSection /\ [][NextSection]_vars

(***************************************************************************)
(* SpecLong: AmexParser and BankStatementParser on statements with up to   *)
(* MaxInline inline-layout transactions followed by split-layout lines.    *)
(***************************************************************************)
InitLong ==
    /\ kind \in {"amex", "generic"}
    /\ pending \in {<<t>> : t \in LongStatements}
    /\ current_bank = None
    /\ current_card = None
    /\ files = <<>>
    /\ mainpc = "none"
    /\ Idle /\ NoWorkers /\ NoLabels

NextLong == Call \/ InlineStep \/ InlineExit \/ SplitStep \/ SplitExit

SpecLong == InitLong /\ [][NextLong]_vars

(***************************************************************************)
(* SpecCard: BankOfAmericaParser.extract_card_name on statements of two    *)
(* lines, the first one behind a filler that puts it before, across or     *)
(* behind the end of the header.                                           *)
(***************************************************************************)
RECURSIVE Filler(_)
Filler(n) ==
    IF n = 0 THEN ""
    ELSE IF n % 2 = 1 THEN "." \o Filler(n - 1)
    ELSE LET half == Filler(n \div 2) IN half \o half

CardPhrases ==
    {"Visa Signature", "Cash Rewards", "Travel Rewards", "Customized Cash Rewards",
     "Bank of America Credit Card", "VISA SIGNATURE", "Account Summary"}

CardRequests ==
    {[text |-> <<Filler(n) \o a, b>>, filename |-> "BofA_2025_01.pdf"] :
        n \in {0, HeaderLength - 10, HeaderLength}, a \in CardPhrases, b \in CardPhrases}

InitCard ==
    /\ kind = "bofa"
    /\ request \in CardRequests
    /\ pending = <<>>
    /\ current_bank = None
    /\ current_card = None
    /\ files = <<>>
    /\ mainpc = "card"
    /\ Idle /\ NoWorkers
    /\ transaction = NoTransaction /\ labels = <<>>

NextCard == ExtractCardName

SpecCard == InitCard /\ [][NextCard]_vars

(***************************************************************************)
(* SpecLive: the calls of SpecLong and SpecSection, which go on while a    *)
(* step of parse_transactions is left to take.                             *)
(***************************************************************************)
InitLive == InitLong \/ InitSection

SpecLive == InitLive /\ [][Next]_vars /\ WF_vars(Next)

(***************************************************************************)
(* Properties.  Calls: the calls of parse_transactions that have returned. *)
(***************************************************************************)
Calls == 1..Len(returned)
Indices(q) == 1..Len(q)

Triple(t) == <<t.date, t.description, t.amount>>

\* C1: the list one parse_transactions call returns never holds two
\* transactions with the same (date, description, stored signed amount), the
\* merge of AmexParser's inline and split layouts included.
C1_NoDuplicateTriple ==
    \A c \in Calls :
        \A a, b \in Indices(returned[c].result) :
            a # b => Triple(returned[c].result[a]) # Triple(returned[c].result[b])

\* the three notations of an amount line, each the whole line
C2_MinusForm == <<Ch("-"), Ch("$"), Plus(DigitComma), Ch("."), Rx(Digit, 2, 2)>>
C2_PlainForm == <<Ch("$"), Plus(DigitComma), Ch("."), Rx(Digit, 2, 2)>>
C2_DigitRunForm == <<Plus(Digit), Ch("-"), Ch("$"), Plus(DigitComma), Ch("."), Rx(Digit, 2, 2)>>

RECURSIVE AfterDollar(_)
AfterDollar(s) ==
    IF Char(s, 1) = "$" THEN SubSeq(s, 2, Len(s)) ELSE AfterDollar(SubSeq(s, 2, Len(s)))

\* the amount C2 gives a next line, None for a line of another form
C2_Expected(next_line) ==
    IF ReMatch(next_line, C2_DigitRunForm, TRUE).ok \/ ReMatch(next_line, C2_MinusForm, TRUE).ok
    THEN "-" \o Remove(AfterDollar(next_line), ",")
    ELSE IF ReMatch(next_line, C2_PlainForm, TRUE).ok
         THEN Remove(AfterDollar(next_line), ",")
         ELSE None

\* line k of text is a dated description line that is no payment, is followed
\* by an amount line, and is the first line of the text with its date and description
C2_FirstDatedLine(text, k) ==
    /\ k + 1 <= Len(text)
    /\ Inline(text[k]).ok /\ ~Inline(text[k]).payment
    /\ Len(Inline(text[k]).description) > MinDescription
    /\ Len(Inline(text[k]).cleaned) > MinDescription
    /\ C2_Expected(Strip(text[k + 1])) # None
    /\ \A j \in 1..(k - 1) :
           Inline(text[j]).ok =>
               <<Inline(text[j]).date, Inline(text[j]).cleaned>>
                   # <<Inline(text[k]).date, Inline(text[k]).cleaned>>

\* C2: in the inline layout a dated description line whose next line is "-$A"
\* gets amount -A, "$A" gets A, "<digits>-$A" gets -A, always without
\* thousands separators: every inline transaction of such a line has that
\* amount, and the first line with its date and description has a transaction.
C2_InlineAmountSign ==
    \A c \in Calls :
        LET text == returned[c].text
            result == returned[c].result
        IN /\ \A n \in Indices(result) :
                  LET t == result[n]
                  IN (/\ t.layout = "inline" /\ t.line + 1 <= Len(text)
                      /\ C2_Expected(Strip(text[t.line + 1])) # None)
                         => t.amount = C2_Expected(Strip(text[t.line + 1]))
           /\ \A k \in Indices(text) :
                  C2_FirstDatedLine(text, k) =>
                      \E n \in Indices(result) :
                          /\ result[n].layout = "inline" /\ result[n].line = k
                          /\ result[n].amount = C2_Expected(Strip(text[k + 1]))

C2_DigitRunCreditEmitted ==
    \E c \in Calls : \E n \in Indices(returned[c].result) :
        LET t == returned[c].result[n]
        IN /\ t.layout = "inline" /\ t.amount = "-2436.94"
           /\ t.line + 1 <= Len(returned[c].text)
           /\ returned[c].text[t.line + 1] = "8009256278-$2,436.94"

\* MM/DD/YYYY
C3_FullDateForm == <<Rx(Digit, 2, 2), Ch("/"), Rx(Digit, 2, 2), Ch("/"), Rx(Digit, 4, 4)>>

C4_YearFromClosingMonth ==
    kind = "bofa" /\ pc \in {"rows", "idle"} /\ lines # <<>> =>
        /\ \A n \in Indices(transactions) :
               LET date == transactions[n].date
                   m == ToInt(SubSeq(date, 1, 2))
               IN SubSeq(date, 7, Len(date)) =
                      IF m > statement_month THEN ToStr(ToInt(statement_year) - 1)
                      ELSE statement_year
        /\ lines[1] = "Statement Closing Date 01/20/2025" =>
               /\ statement_month = 1 /\ statement_year = "2025"
               /\ \A n \in Indices(transactions) :
                      SubSeq(transactions[n].date, 1, 2) = "12" =>
                          SubSeq(transactions[n].date, 7, 10) = "2024"
        /\ lines[1] = "November 21 - December 20, 2025" =>
               /\ statement_month = 12 /\ statement_year = "2025"
               /\ \A n \in Indices(transactions) :
                      SubSeq(transactions[n].date, 7, 10) = "2025"

C4_DecemberBeforeJanuaryClosing ==
    /\ kind = "bofa" /\ statement_month = 1 /\ statement_year = "2025"
    /\ \E n \in Indices(transactions) : transactions[n].date = "12/28/2024"

C6_Markers == {"AUTOPAY", "PAYMENT - THANK YOU", "THANK YOU", "MOBILE PAYMENT"}

\* a line that starts with a date token followed by a description with a marker
C6_PaymentLine(line) ==
    LET m == ReMatch(line, InlineRx, FALSE)
    IN m.ok /\ \E k \in C6_Markers : Contains(StrUpper(Group(line, m, 7, 7)), k)

\* C6: a dated line whose description contains, in any case, AUTOPAY,
\* PAYMENT - THANK YOU, THANK YOU or MOBILE PAYMENT never produces a
\* transaction, whatever follows it and whether or not the split layout also
\* runs (its text may still be joined into the description of a split triple
\* before it): no transaction is appended at such a line, and a statement of such a
\* line and at most one more line gives no transaction at all.
C6_PaymentLineProducesNothing ==
    \A c \in Calls :
        LET text == returned[c].text
            result == returned[c].result
        IN /\ \A n \in Indices(result) : ~C6_PaymentLine(Strip(text[result[n].line]))
           /\ Len(text) <= 2 /\ C6_PaymentLine(Strip(text[1])) => result = <<>>

C6_PaymentLineSkipped ==
    \E c \in Calls :
        /\ kind = "amex"
        /\ returned[c].text = <<"08/16/24 Payment - Thank You", "$2,436.94">>
        /\ returned[c].result = <<>>

C7_NoInlineMatch(text) ==
    \A k \in Indices(text) : ~ReMatch(Strip(text[k]), InlineRx, FALSE).ok

\* lines k, k + 1, k + 2 of text: an amount alone, a date alone, a description
C7_Triple(text, k) ==
    /\ k + 2 <= Len(text)
    /\ SplitL(text[k]).amount_only
    /\ SplitL(text[k + 1]).date_only
    /\ ~SplitL(text[k + 2]).amount_only /\ ~SplitL(text[k + 2]).date_only

C7_Unsigned(amount_line) == Remove(Remove(Remove(amount_line, "$"), "-"), ",")
C7_Signed(amount_line) ==
    IF StartsWith(amount_line, "-") THEN "-" \o C7_Unsigned(amount_line)
    ELSE C7_Unsigned(amount_line)

C8_AmountForm == <<Opt("-"), Plus(Digit), Ch("."), Rx(Digit, 2, 2)>>

\* C8: every stored amount, of any parser, is an optional leading "-" and a
\* plain decimal number with exactly two fractional digits and no thousands
\* separators.
C8_AmountIsPlainDecimal ==
    \A c \in Calls : \A n \in Indices(returned[c].result) :
        ReMatch(returned[c].result[n].amount, C8_AmountForm, TRUE).ok

\* C9: the result of parse_transactions depends on the text alone: calls of
\* one parser object on the same text return the same list, also with other
\* statements parsed in between, and nothing accumulates from earlier calls.
C9_SameTextSameResult ==
    \A a, b \in Calls :
        returned[a].text = returned[b].text => returned[a].result = returned[b].result

C9_RepeatedAfterOther ==
    /\ Len(returned) = 3
    /\ returned[1].text = returned[3].text /\ returned[2].text # returned[1].text
    /\ returned[1].result # <<>> /\ returned[2].result # <<>>
    /\ returned[3].result = returned[1].result

\* the calendar day of a date M/D/Y, a two-digit year read as 20YY
C10_Day(date) ==
    LET m == ReMatch(date, DateRx, TRUE)
        y == Group(date, m, 5, 5)
    IN (IF Len(y) = 2 THEN 2000 + ToInt(y) ELSE ToInt(y)) * 10000
         + ToInt(Group(date, m, 1, 1)) * 100 + ToInt(Group(date, m, 3, 3))

\* C10: after the batch is aggregated the combined list is newest first: of
\* two adjacent transactions the first one's date is not before the second's.
C10_NewestFirst ==
    mainpc = "sorted" =>
        \A k \in 1..(Len(all_transactions) - 1) :
            C10_Day(all_transactions[k].date) >= C10_Day(all_transactions[k + 1].date)

\* C11 as stated: the returned list follows the line scan: a transaction is
\* never listed before one that was found on an earlier line.
C11_LineScanOrder ==
    \A c \in Calls : \A a, b \in Indices(returned[c].result) :
        a < b => returned[c].result[a].line < returned[c].result[b].line

\* C11: within one layout the returned list follows the line scan, and the
\* parser with two strategies lists every inline transaction before every
\* split one, whatever their lines.
C11_ScanOrderPerLayout ==
    \A c \in Calls : \A a, b \in Indices(returned[c].result) :
        a < b =>
            LET x == returned[c].result[a]
                y == returned[c].result[b]
            IN /\ x.layout = y.layout => x.line < y.line
               /\ ~(x.layout = "split" /\ y.layout = "inline")

C11_InlineListedBeforeEarlierSplit ==
    \E c \in Calls :
        /\ returned[c].text = <<"$2,436.94", "08/15/24",
                                "08/15/24 FOO STORE 8009256278", "$2,436.94">>
        /\ Len(returned[c].result) = 2
        /\ returned[c].result[1].layout = "inline"
        /\ returned[c].result[2].layout = "split"
        /\ returned[c].result[1].line > returned[c].result[2].line


\* the issuer predicates as C12 words them
C12_NamesAmex ==
    \/ \E n \in 1..Len(request.text) :
           Contains(StrLower(request.text[n]), "american express")
    \/ Contains(StrLower(request.filename), "amex")
C12_NamesBofa ==
    \/ \E n \in 1..Len(request.text) :
           \/ Contains(StrLower(request.text[n]), "bank of america")
           \/ Contains(StrLower(request.text[n]), "bankofamerica")
    \/ Contains(StrLower(request.filename), "bofa")

C13_Tokens(d) == SplitAt(d, 1, "")
\* made only of digits, separators and tokens of at most 2 characters
C13_DigitsOrShort(d) ==
    \A k \in Indices(C13_Tokens(d)) :
        Len(C13_Tokens(d)[k]) <= 2 \/ IsDigitStr(C13_Tokens(d)[k])
C13_ShortTokens(d) == \A k \in Indices(C13_Tokens(d)) : Len(C13_Tokens(d)[k]) <= 2
C13_DigitsAndSeparators(d) ==
    \A p \in 1..Len(d) : Char(d, p) \in Digit \cup Separators

\* C13 as stated: every label is a non-empty string, and it is "Unknown" for
\* every description made only of digits, separators or tokens of at most 2
\* characters.
C13_UnknownForDigitsOrShort ==
    \A n \in Indices(labels) :
        /\ labels[n] \notin {"", None}
        /\ C13_DigitsOrShort(transaction.description) => labels[n] = "Unknown"

\* C13: every label is a non-empty string; it is "Unknown" for the empty
\* string, for whitespace-only strings and for every description that does not
\* begin with an upper-case letter and is made only of separators and tokens of
\* at most 2 characters; a description of digits and separators that begins
\* with three or more digits is labelled with that first run of digits.
C13_LabelNeverEmpty ==
    \A n \in Indices(labels) :
        LET d == transaction.description
        IN /\ labels[n] \notin {"", None}
           /\ C13_ShortTokens(d) /\ ~(d # "" /\ Char(d, 1) \in UpperAZ)
                 => labels[n] = "Unknown"
           /\ C13_DigitsAndSeparators(d) /\ Len(C13_Tokens(d)[1]) >= 3
                 => labels[n] = C13_Tokens(d)[1]

C13_WhitespaceOnlyUnknown ==
    /\ transaction.description = "   "
    /\ labels = <<"Unknown">>
    /\ transaction.merchant = "Unknown"

\* the table entries found in a description
C14_Found(d) == {k \in Indices(MERCHANT_PATTERNS) : EntryMatches(d, k)}

\* C14: a description in which table entries are found is labelled with the
\* name of the earliest of them in table order, so "CVS/PHARMACY" is
\* "CVS Pharmacy" and "WHOLE FOODS" is "Whole Foods"; the heuristic decides
\* only when no entry is found.
C14_EarliestEntryWins ==
    \A n \in Indices(labels) :
        LET d == transaction.description
            found == C14_Found(d)
        IN /\ found # {} =>
                 labels[n] = MERCHANT_PATTERNS[CHOOSE k \in found :
                                                   \A j \in found : k <= j].name
           /\ found = {} /\ d # "" =>
                 labels[n] \in {extract_from_description(d), "Unknown"}
           /\ d = "CVS/PHARMACY" => labels[n] = "CVS Pharmacy"
           /\ d = "WHOLE FOODS" => labels[n] = "Whole Foods"

C14_BrandBeforeBroader ==
    /\ transaction.description = "CVS/PHARMACY"
    /\ {6, 33} \subseteq C14_Found(transaction.description)
    /\ MERCHANT_PATTERNS[33].name = "Pharmacy"
    /\ labels # <<>> /\ labels[1] = "CVS Pharmacy"

\* C15: the label depends on the description alone: every call on the same
\* description returns the same label, "Uber" and "Netflix" for the two
\* table examples, and for "ACME WIDGET CO 4521 PLANO TX", where no entry is
\* found, a non-empty label of the heuristic.
C15_SameLabelEveryCall ==
    /\ \A a, b \in Indices(labels) : labels[a] = labels[b]
    /\ \A n \in Indices(labels) :
           LET d == transaction.description
           IN /\ d = "UBER EATS help.uber.com CA" => labels[n] = "Uber"
              /\ d = "NETFLIX.COM 866-579-7172 CA" => labels[n] = "Netflix"
              /\ d = "ACME WIDGET CO 4521 PLANO TX" =>
                     /\ C14_Found(d) = {}
                     /\ labels[n] = "ACME WIDGET CO"

C15_UnmatchedLabelledTwice ==
    /\ transaction.description = "ACME WIDGET CO 4521 PLANO TX"
    /\ Len(labels) = 2
    /\ labels[1] = "ACME WIDGET CO" /\ labels[2] = "ACME WIDGET CO"


\* C16: no transaction returned by a parser, whatever the layout it was read
\* from, has a description of 2 characters or fewer.
C16_DescriptionLongerThanTwo ==
    \A c \in Calls : \A n \in Indices(returned[c].result) :
        Len(returned[c].result[n].description) > MinDescription

\* a run of ten or more digits
C17_LongDigitRun == <<Rx(Digit, 10, -1)>>

\* C17: no description of a transaction returned by a parser contains a run
\* of 10 or more consecutive digits.
C17_NoLongDigitRun ==
    \A c \in Calls : \A n \in Indices(returned[c].result) :
        ~ReSearch(returned[c].result[n].description, C17_LongDigitRun).ok


\* the calls whose result the batch loop has already added to the combined list
C18_Added ==
    IF mainpc = "parsing" /\ pc = "idle" THEN 1..(Len(returned) - 1) ELSE Calls

RECURSIVE C18_Total(_)
C18_Total(c) == IF c = 0 THEN 0 ELSE Len(returned[c].result) + C18_Total(c - 1)

\* C18: no statement ends the batch loop, also not one without text or
\* without transactions: no call of the loop raises, the combined list is
\* sorted only when no file is left, and it holds the transactions of every
\* statement processed so far, nothing more.
C18_BatchGoesOn ==
    mainpc \in {"loop", "parsing", "sorted"} =>
        /\ pc # "raised"
        /\ mainpc = "sorted" => files = <<>>
        /\ \A c \in C18_Added : \A n \in Indices(returned[c].result) :
               \E k \in Indices(all_transactions) :
                   all_transactions[k] = returned[c].result[n]
        /\ Len(all_transactions) = C18_Total(Len(returned) - Cardinality(Calls \ C18_Added))

C18_AfterUnreadableFile ==
    /\ mainpc = "sorted"
    /\ Len(returned) = 2
    /\ returned[1].text = <<"">> /\ returned[1].result = <<>>
    /\ returned[2].result # <<>>
    /\ \A n \in Indices(returned[2].result) :
           \E k \in Indices(all_transactions) : all_transactions[k] = returned[2].result[n]


\* the labels main() derives from a statement file
C19_Bank(f) == extract_bank_name(extract_text_from_pdf(f), f.name)
C19_Card(f) == extract_card_name(extract_text_from_pdf(f), f.name)
C19_Own(q, f) ==
    \A n \in Indices(q) : q[n].bank = C19_Bank(f) /\ q[n].card = C19_Card(f)

C20_Candidate(text, k) ==
    /\ k + 1 <= Len(text)
    /\ Inline(text[k]).ok /\ ~Inline(text[k]).payment
    /\ Len(Inline(text[k]).description) > MinDescription
    /\ Len(Inline(text[k]).cleaned) > MinDescription
    /\ C2_Expected(Strip(text[k + 1])) # None

\* C20: a candidate is dropped only as the duplicate of a transaction with the
\* same date, cleaned description and signed amount, so the result holds a
\* transaction with the date, description and signed amount of every
\* candidate, a refund next to the purchase it reverses.
C20_DroppedOnlyIfSameSignedAmount ==
    \A c \in Calls : \A k \in Indices(returned[c].text) :
        C20_Candidate(returned[c].text, k) =>
            \E n \in Indices(returned[c].result) :
                Triple(returned[c].result[n])
                    = <<Inline(returned[c].text[k]).date, Inline(returned[c].text[k]).cleaned,
                        C2_Expected(Strip(returned[c].text[k + 1]))>>

\* line k of text lies in the transactions section: after the first heading
\* "Purchases and Adjustments" without a dollar amount, with no line that ends
\* the section from there up to line k
InSection(text, k) ==
    \E s \in 1..(k - 1) :
        /\ Start(text[s])
        /\ \A r \in 1..(s - 1) : ~Start(text[r])
        /\ \A e \in (s + 1)..k : ~Row(text[e]).section_end

\* a line with the credit marker taken off its end
C21_Unmarked(line) ==
    IF EndsWith(line, "-") THEN SubSeq(line, 1, Len(line) - 1)
    ELSE IF EndsWith(line, "CR") THEN RStrip(SubSeq(line, 1, Len(line) - 2))
    ELSE line

\* the lines that are a row followed by a trailing "CR" or a trailing hyphen
C21_MarkedRows ==
    {l \in SectionLines :
        /\ EndsWith(l, "-") \/ EndsWith(l, "CR")
        /\ RowLine(C21_Unmarked(l)).ok}

\* C21: a row of the transactions section that ends with a trailing "CR" or a
\* trailing hyphen after the amount gives a transaction of BankOfAmericaParser
\* with a negative amount, and no hyphen is left among the stored digits.
C21_MarkedRowIsCredit ==
    \A c \in Calls :
        LET text == returned[c].text
            result == returned[c].result
        IN kind = "bofa" =>
               \A k \in Indices(text) :
                   text[k] \in C21_MarkedRows /\ InSection(text, k) =>
                       \E n \in Indices(result) :
                           /\ result[n].line = k
                           /\ StartsWith(result[n].amount, "-")
                           /\ ~Contains(SubSeq(result[n].amount, 2, Len(result[n].amount)), "-")

\* C22: a row with a plain amount and no trailing "CR" or trailing hyphen
\* gives a positive amount, whatever letters its description, city and state
\* tokens hold.
C22_PlainRowIsDebit ==
    \A c \in Calls :
        LET text == returned[c].text
            result == returned[c].result
        IN kind = "bofa" =>
               \A n \in Indices(result) :
                   LET line == Strip(text[result[n].line])
                   IN ~EndsWith(line, "CR") /\ ~EndsWith(line, "-") =>
                          ~StartsWith(result[n].amount, "-")

\* C23: BankOfAmericaParser.parse_transactions emits transactions only from
\* lines strictly after the first "Purchases and Adjustments" line without a
\* dollar amount and strictly before the first following line (as the loop
\* reads it) with a section-end marker; without such a heading it emits none.
C23_OnlyFromSection ==
    \A c \in Calls :
        LET text == returned[c].text
            result == returned[c].result
        IN kind = "bofa" =>
               /\ \A n \in Indices(result) :
                      /\ result[n].line \in Indices(text)
                      /\ InSection(text, result[n].line)
               /\ (\A k \in Indices(text) : ~Start(text[k])) => result = <<>>

C23_RowBeforeHeadingLeftOut ==
    \E c \in Calls :
        /\ kind = "bofa"
        /\ returned[c].text = <<"01/05 01/06 FOO MART PLANO TX 1234 5678 20.00",
                                "Purchases and Adjustments",
                                "01/05 01/06 FOO MART PLANO TX 1234 5678 20.00">>
        /\ Len(returned[c].result) = 1
        /\ returned[c].result[1].line = 3

\* the tokens between the two dates and the amount of a row
C24_TokensOf ==
    [l \in SectionLines |->
        LET match == ReMatch(l, RowRx, TRUE)
        IN IF match.ok THEN Split(Group(l, match, 9, 9)) ELSE <<>>]

\* the positions, counted from 0, of the two-letter uppercase tokens
C24_StatePositions(parts) ==
    {j \in 0..(Len(parts) - 1) : Len(parts[j + 1]) = 2 /\ IsUpperStr(parts[j + 1])}

\* C24: when the tokens of a row hold a two-letter uppercase token, the first
\* at index j, the description is exactly the tokens before index j - 1, for
\* every j, 0 and 1 included; when there is none, the description is the
\* first min(4, n) tokens.
C24_DescriptionBeforeState ==
    \A c \in Calls :
        LET text == returned[c].text
            result == returned[c].result
        IN kind = "bofa" =>
               \A n \in Indices(result) :
                   LET line == text[result[n].line]
                       parts == C24_TokensOf[line]
                       states == C24_StatePositions(parts)
                   IN line \in SectionLines =>
                          IF states # {}
                          THEN LET j == CHOOSE m \in states : \A o \in states : m <= o
                               IN result[n].description = Join(SubSeq(parts, 1, j - 1))
                          ELSE result[n].description
                                   = Join(SubSeq(parts, 1, Min(FallbackParts, Len(parts))))

\* C25: BankOfAmericaParser.parse_transactions never fails while it resolves
\* years: the closing month compared against a transaction month is always a
\* number 1..12, the default 12 when the header names no usable closing date.
C25_ClosingMonthIsNumber ==
    kind = "bofa" =>
        /\ pc # "raised"
        /\ pc = "rows" => statement_month \in 1..12

\* the transactions of one layout in a list
OfLayout(q, layout) == {n \in Indices(q) : q[n].layout = layout}

\* the dedup key of a split-layout transaction: its amount without the sign
C26_Key(t) == DedupKey(t.date, t.description, Remove(t.amount, "-"))

\* C26: AmexParser.parse_transactions runs the split-layout pass if and only
\* if the inline-layout pass emitted fewer than 5 transactions.  With 5 or more
\* the split triples of the statement give no transaction; with fewer, every
\* well-formed triple is represented in the result and the split results
\* stand behind the inline results; both passes put the key of every
\* transaction they emit into the one set seen_descriptions.
C26_SplitPassIffFewInline ==
    /\ kind = "amex" /\ pc = "split" =>
           Cardinality(OfLayout(transactions, "inline")) < SplitThreshold
    /\ kind = "amex" =>
           /\ Cardinality(seen_descriptions) = Len(transactions)
           /\ \A n \in OfLayout(transactions, "split") :
                  C26_Key(transactions[n]) \in seen_descriptions
    /\ \A c \in Calls :
           LET text == returned[c].text
               result == returned[c].result
               inline == OfLayout(result, "inline")
               split == OfLayout(result, "split")
           IN kind = "amex" =>
                  /\ Cardinality(inline) >= SplitThreshold => split = {}
                  /\ Cardinality(inline) < SplitThreshold =>
                         \A k \in Indices(text) :
                             (/\ C7_Triple(text, k)
                              /\ ~IsDigitStr(Strip(text[k + 2]))
                              /\ ~AnyKeyword(text[k + 2], SplitKeywords)
                              /\ Len(CleanSplit(Strip(text[k + 2]))) > 2)
                                 => \E n \in Indices(result) :
                                        /\ result[n].date = Strip(text[k + 1])
                                        /\ StartsWith(result[n].description,
                                                      CleanSplit(Strip(text[k + 2])))
                                        /\ Remove(result[n].amount, "-")
                                               = C7_Unsigned(Strip(text[k]))
                  /\ \A a \in inline, b \in split : a < b

C26_TripleBehindFiveInline ==
    \E c \in Calls :
        /\ kind = "amex"
        /\ returned[c].text = InlinePairs(5) \o <<"$9.00", "08/15/24", "FOO STORE">>
        /\ Len(returned[c].result) = 5
        /\ OfLayout(returned[c].result, "split") = {}

\* the lines that may join the description of the split triple whose amount
\* stands on line k: of the at most 8 lines behind the date line, those before
\* the next amount-only or date-only line that are not empty, not one
\* character long and not all digits
C27_Eligible(text, k) ==
    {j \in (k + 2)..Min(k + 9, Len(text)) :
        /\ \A e \in (k + 2)..j :
               ~SplitL(text[e]).amount_only /\ ~SplitL(text[e]).date_only
        /\ Len(Strip(text[j])) > 1
        /\ ~IsDigitStr(Strip(text[j]))}

\* ... and the first three of them, in the order of the text
C27_Taken(text, k) ==
    LET eligible == C27_Eligible(text, k)
        first == {j \in eligible : Cardinality({e \in eligible : e < j}) < 3}
        behind == [m \in 1..(Len(text) - k - 1) |-> k + 1 + m]
        taken == SelectSeq(behind, LAMBDA j : j \in first)
    IN [m \in 1..Len(taken) |-> Strip(text[taken[m]])]

\* C27 as stated: the description of a split-layout transaction is the
\* space-joined text of at most 3 lines, all among the at most 8 lines behind
\* the date line, none of them at or behind the next amount-only or date-only
\* line, none empty, one character long or all digits.
C27_DescriptionIsJoinedLines ==
    \A c \in Calls :
        LET text == returned[c].text
            result == returned[c].result
        IN \A n \in OfLayout(result, "split") :
               LET taken == C27_Taken(text, result[n].line)
               IN /\ Len(taken) \in 1..3
                  /\ result[n].description = Join(taken)

\* C27: the description of a split-layout transaction is made of at most 3
\* lines, all among the at most 8 lines behind the date line, none of them at
\* or behind the next amount-only or date-only line, none empty, one
\* character long or all digits: it is their space-joined text with every run
\* of ten or more digits (and a "+" before it) removed and every run of
\* whitespace made one space.
C27_DescriptionFromLinesBehindDate ==
    \A c \in Calls :
        LET text == returned[c].text
            result == returned[c].result
        IN \A n \in OfLayout(result, "split") :
               LET taken == C27_Taken(text, result[n].line)
               IN /\ Len(taken) \in 1..3
                  /\ result[n].description = CleanSplit(Join(taken))

C27_NinthLineLeftOut ==
    \E c \in Calls :
        /\ kind = "amex"
        /\ returned[c].text = <<"$9.00", "08/15/24", "", "7", "12", "A", "", "7", "12",
                                "FOO STORE", "BAR">>
        /\ Len(returned[c].result) = 1
        /\ returned[c].result[1].description = "FOO STORE"

\* the line that supplies the amount of the inline-layout transaction of the
\* dated line k: the first of the two lines behind it that holds an amount
C28_AmountLine(text, k) ==
    IF Amount(text[k + 1]).found THEN k + 1 ELSE k + 2

\* C28: in the inline layout each amount line supplies the amount of at most
\* one emitted transaction: a dated line without an amount of its own never
\* takes the amount of the next dated line.
C28_OneTransactionPerAmountLine ==
    \A c \in Calls :
        LET text == returned[c].text
            result == returned[c].result
        IN \A a, b \in OfLayout(result, "inline") :
               a # b => C28_AmountLine(text, result[a].line)
                            # C28_AmountLine(text, result[b].line)

\* the header of the statement the card was asked for
C29_Header ==
    LET text == JoinLines(request.text)
    IN SubSeq(text, 1, Min(HeaderLength, Len(text)))

\* C29: BankOfAmericaParser.extract_card_name always returns a non-empty
\* label and every product label is reachable: a header with "Customized Cash
\* Rewards" and without "Visa Signature" gives "Bank of America Customized
\* Cash Rewards", a header with none of the product names gives "Bank of
\* America Credit Card".
C29_EveryProductLabelReturned ==
    kind = "bofa" /\ request # NoRequest /\ mainpc = "none" =>
        /\ current_card # "" /\ current_card # None
        /\ (Contains(C29_Header, "Customized Cash Rewards")
                /\ ~Contains(C29_Header, "Visa Signature"))
               => current_card = "Bank of America Customized Cash Rewards"
        /\ (\A k \in Indices(ProductNames) : ~Contains(C29_Header, ProductNames[k].name))
               => current_card = "Bank of America Credit Card"

\* C30: parse_transactions of AmexParser, BankStatementParser and
\* BankOfAmericaParser terminates for every finite statement text: on every
\* iteration of a loop the line index grows, the iterations that skip a
\* payment line included, it never goes beyond the end of the text by more
\* than one, and every call returns (or ends with the error of the year
\* comparison).
C30_EveryCallEnds ==
    /\ [][(pc \in {"inline", "split", "rows"} /\ pc' = pc) => (i' > i)]_vars
    /\ [](i <= Len(lines) + 1)
    /\ <>(pending = <<>> /\ pc \in {"idle", "raised"})

C30_SplitPaymentSkippedAndReturned ==
    \E c \in Calls :
        /\ kind = "amex"
        /\ pc = "idle"
        /\ returned[c].text = <<"$9.00", "08/15/24", "AUTOPAY PAYMENT", "FOO STORE">>
        /\ returned[c].result = <<>>

=============================================================================
